---- MODULE Spec2Model ----
(***************************************************************************)
(* Battle state tracker of foul-play: the protocol interpreter of          *)
(* fp/battle_modifier.py (update_battle, process_battle_updates and the     *)
(* per-line handlers), the inference passes it runs, and the process-wide   *)
(* set datasets of data/pkmn_sets.py the passes read and prune.             *)
(*                                                                          *)
(* The battle is one record; every handler is an operator from a battle     *)
(* and a protocol line to the battle after the handler.  A protocol line    *)
(* "|tag|who|x|n|ann|of" is the record [tag, who, x, n, ann, of]: who is    *)
(* the player of the "p2a: Name" part, x the third part (a move, a species, *)
(* a stat, an item, ...), n the number of the line (a condition in percent, *)
(* an amount, a turn), ann and of the trailing "[from] ..." and "[of] ..."  *)
(* parts, "" when the line has none.                                        *)
(***************************************************************************)
EXTENDS Integers, Sequences, FiniteSets, TLC

VARIABLES
    battle,      \* the Battle object, battle.msg_list included
    datasets,    \* the process-wide dataset singletons of data/pkmn_sets.py
    pc,          \* where the battle loop is: "idle", "speed", "lines", "pick"
    idx,         \* the index i of the loop of process_battle_updates
    lastMsg,     \* the message the running update_battle call was given
    dispatched,  \* the lines function_to_call was called for, in call order
    ret,         \* what the last update_battle call returned
    sent,        \* the last message the bot has sent to the server
    consecutive_errors,  \* consecutive_errors of run_foul_play
    search,      \* the find_best_move call: its futures, its outcome
    session      \* the BattleSession of fp_mcp and its battle loop; for run.py
                 \* the bot process: bot_state and the locals of run_foul_play

vars == <<battle, datasets, pc, idx, lastMsg, dispatched, ret, sent,
          consecutive_errors, search, session>>

----------------------------------------------------------------------------
(* Bounds of the model *)

\* longest server message, in lines
MaxMsgLen == 2
\* longest pending buffer (battle.msg_list)
MaxBuf == 3
\* most layers of one entry hazard the server lays on a side
MaxLayers == 1
\* most turns the server keeps a Pokemon asleep by something else than Rest
MaxSleepTurns == 2

----------------------------------------------------------------------------
(* Protocol lines *)

\* a line carries its tag, the player of its Pokemon, a name or word (x), a
\* number (n), and its "[from]" and "[of]" parts; when the line has a
\* condition "n/max_hp" its denominator is 100, as the server sends it for
\* the opponent's Pokemon and for a Pokemon of the bot that has 100 HP
Line(tag, who, x, n, ann, of) ==
    [tag |-> tag, who |-> who, x |-> x, n |-> n, ann |-> ann, of |-> of,
     max_hp |-> 100]

\* len(line.split("|"))
split_len(l) == 4 + (IF l.ann # "" THEN 1 ELSE 0) + (IF l.of # "" THEN 1 ELSE 0)

\* a line with the condition "hp/max_hp"
ConditionLine(tag, who, hp, max_hp) ==
    [Line(tag, who, "", hp, "", "") EXCEPT !.max_hp = max_hp]

\* a line without any "|" (the ">battle-..." room header, an empty line)
RoomTag == ">"
RoomLine == Line(RoomTag, "", "", 0, "", "")

\* line.split("|") has fewer than two parts
split_len_lt_2(l) == l.tag = RoomTag

UserName == "p1"
OpponentName == "p2"

is_opponent(b, l) == l.who # b.user.name

\* the last part of the split line, split_msg[-1]
LastPart(l) ==
    IF l.of # "" THEN l.of ELSE IF l.ann # "" THEN l.ann ELSE l.x

\* the keys of battle_modifiers_lookup
battle_modifiers_lookup ==
    {"switch", "faint", "-fail", "drag", "-heal", "-damage", "-sethp", "move",
     "-setboost", "-boost", "-unboost", "-status", "-activate", "-anim",
     "-prepare", "-start", "-singlemove", "-end", "-curestatus", "-cureteam",
     "-weather", "-fieldstart", "-fieldend", "-sidestart", "-sideend",
     "-swapsideconditions", "-item", "-enditem", "-immune", "-ability",
     "detailschange", "replace", "-formechange", "-transform", "-mega",
     "-terastallize", "-zpower", "-clearnegativeboost", "-clearboost",
     "-clearallboost", "-singleturn", "-mustrecharge", "upkeep", "cant",
     "inactive", "inactiveoff", "turn", "noinit"}

MOVE_END_STRINGS == {"move", "switch", "upkeep", "-miss", ""}

ITEMS_REVEALED_ON_SWITCH_IN == {"boosterenergy", "airballoon"}

----------------------------------------------------------------------------
(* Names: helpers.normalize_name on the names the lines of the model carry *)

NormalizedNames ==
    [x \in {"Tackle", "Quick Attack", "Swords Dance", "Night Daze",
            "Hidden Power", "Struggle", "Gliscor", "Zoroark", "Jolteon",
            "Heatran", "Life Orb", "Leftovers", "Air Balloon", "Choice Band",
            "Choice Scarf",
            "Stealth Rock", "Spikes", "Toxic Spikes", "Sticky Web",
            "Tailwind", "SunnyDay", "RainDance", "none", "Dynamax",
            "Regenerator", "Sleep Talk", "Rest", "Trick Room",
            "Custap Berry"} |->
        CASE x = "Tackle" -> "tackle"
          [] x = "Quick Attack" -> "quickattack"
          [] x = "Swords Dance" -> "swordsdance"
          [] x = "Night Daze" -> "nightdaze"
          [] x = "Hidden Power" -> "hiddenpower"
          [] x = "Struggle" -> "struggle"
          [] x = "Gliscor" -> "gliscor"
          [] x = "Zoroark" -> "zoroark"
          [] x = "Jolteon" -> "jolteon"
          [] x = "Heatran" -> "heatran"
          [] x = "Life Orb" -> "lifeorb"
          [] x = "Leftovers" -> "leftovers"
          [] x = "Air Balloon" -> "airballoon"
          [] x = "Choice Band" -> "choiceband"
          [] x = "Choice Scarf" -> "choicescarf"
          [] x = "Stealth Rock" -> "stealthrock"
          [] x = "Spikes" -> "spikes"
          [] x = "Toxic Spikes" -> "toxicspikes"
          [] x = "Sticky Web" -> "stickyweb"
          [] x = "Tailwind" -> "tailwind"
          [] x = "SunnyDay" -> "sunnyday"
          [] x = "RainDance" -> "raindance"
          [] x = "none" -> "none"
          [] x = "Dynamax" -> "dynamax"
          [] x = "Regenerator" -> "regenerator"
          [] x = "Sleep Talk" -> "sleeptalk"
          [] x = "Rest" -> "rest"
          [] x = "Trick Room" -> "trickroom"
          [] x = "Custap Berry" -> "custapberry"]

\* lower-cased with everything but letters and digits removed
normalize_name(x) == IF x \in DOMAIN NormalizedNames THEN NormalizedNames[x] ELSE x

\* the item a "[from] item: X" part names, split("item:")[-1] normalized
ItemAnnotations ==
    [a \in {"[from] item: Life Orb", "[from] item: Leftovers",
            "[from] item: Rocky Helmet"} |->
        CASE a = "[from] item: Life Orb" -> "lifeorb"
          [] a = "[from] item: Leftovers" -> "leftovers"
          [] a = "[from] item: Rocky Helmet" -> "rockyhelmet"]

\* part.startswith("[from] item:"), and "item" in part
IsItemAnnotation(a) == a \in DOMAIN ItemAnnotations

\* the parts with "[from]" in them other than the locked-move ones
IsFromAnnotation(a) ==
    a \in DOMAIN ItemAnnotations
        \cup {"[from]Sleep Talk", "[from]move: Sleep Talk",
              "[from] ability: Magic Bounce", "[from] ability: Anger Point",
              "[from] move: Belly Drum", "[from] Stealth Rock", "[from] Spikes",
              "[from] confusion"}

\* "quickclaw" in normalize_name(ln) or "Quick Claw" in ln
MentionsQuickClaw(l) ==
    \/ l.x \in {"Quick Claw", "item: Quick Claw", "nice Quick Claw"}
    \/ l.ann \in {"[from] item: Quick Claw"}

\* "quickdraw" in normalize_name(ln) or "Quick Draw" in ln
MentionsQuickDraw(l) ==
    \/ l.x \in {"Quick Draw", "ability: Quick Draw"}
    \/ l.ann \in {"[from] ability: Quick Draw"}

----------------------------------------------------------------------------
(* Constants of the program and the data tables it reads *)

MAX_BOOSTS == 6

DO_NOTHING_MOVE == "nothing"

UNKNOWN_ITEM == "unknown_item"

\* Python's None
None == "None"

CHOICE_ITEMS == {"choiceband", "choicespecs", "choicescarf"}

DAMAGING_CATEGORIES == {"physical", "special"}

IMMUNE_TO_POISON_ABILITIES == {"immunity", "pastelveil"}

\* StatRange's default max, float("inf")
INF == 100000

Stats == {"attack", "speed"}

\* all_move_json: the entries of the moves of the model.  boosts says that
\* the entry has a "boosts" key.
all_move_json ==
    [m \in {"tackle", "quickattack", "swordsdance", "nightdaze", "hiddenpower",
            "struggle", "sleeptalk", "rest"} |->
        CASE m = "tackle" ->
                [id |-> m, priority |-> 0, category |-> "physical",
                 type |-> "normal", boosts |-> FALSE, multiaccuracy |-> FALSE]
          [] m = "quickattack" ->
                [id |-> m, priority |-> 1, category |-> "physical",
                 type |-> "normal", boosts |-> FALSE, multiaccuracy |-> FALSE]
          [] m = "swordsdance" ->
                [id |-> m, priority |-> 0, category |-> "status",
                 type |-> "normal", boosts |-> TRUE, multiaccuracy |-> FALSE]
          [] m = "nightdaze" ->
                [id |-> m, priority |-> 0, category |-> "special",
                 type |-> "dark", boosts |-> FALSE, multiaccuracy |-> FALSE]
          [] m = "hiddenpower" ->
                [id |-> m, priority |-> 0, category |-> "special",
                 type |-> "normal", boosts |-> FALSE, multiaccuracy |-> FALSE]
          [] m \in {"sleeptalk", "rest"} ->
                [id |-> m, priority |-> 0, category |-> "status",
                 type |-> IF m = "rest" THEN "psychic" ELSE "normal",
                 boosts |-> FALSE, multiaccuracy |-> FALSE]
          [] m = "struggle" ->
                [id |-> m, priority |-> 0, category |-> "physical",
                 type |-> "normal", boosts |-> FALSE, multiaccuracy |-> FALSE]]

\* get_move_information's entry for a move all_move_json does not have
UnknownMove == [id |-> "unknown", priority |-> 0]

\* pokedex: abilities and types, and what the model needs of the stats a
\* species has: max_hp, the speed stat of the bot's own Pokemon (from the
\* request) and the speed stats set_spread gives it for the spreads
\* ("jolly", "0,0,0,0,0,252"), ("quiet", "0,0,0,0,0,0") and ("serious",
\* "85,85,85,85,85,85")
pokedex ==
    [p \in {"jolteon", "gliscor", "zoroark", "heatran"} |->
        CASE p = "jolteon" ->
                [abilities |-> {"voltabsorb", "quickfeet"},
                 types |-> {"electric"}, max_hp |-> 100,
                 speed |-> 394, max_speed |-> 394,
                 min_speed |-> 234, rand_speed |-> 312]
          [] p = "gliscor" ->
                [abilities |-> {"hypercutter", "sandveil", "poisonheal"},
                 types |-> {"ground", "flying"}, max_hp |-> 100,
                 speed |-> 226, max_speed |-> 317,
                 min_speed |-> 175, rand_speed |-> 247]
          [] p = "zoroark" ->
                [abilities |-> {"illusion"},
                 types |-> {"dark"}, max_hp |-> 200,
                 speed |-> 246, max_speed |-> 339,
                 min_speed |-> 193, rand_speed |-> 267]
          [] p = "heatran" ->
                [abilities |-> {"flashfire", "flamebody"},
                 types |-> {"fire", "steel"}, max_hp |-> 100,
                 speed |-> 190, max_speed |-> 278,
                 min_speed |-> 143, rand_speed |-> 211]]

\* the Hidden Power types the model tells apart, and how each fares against
\* the types of the bot's Pokemon (helpers.is_super_effective and the like)
HiddenPowerTypes == {"ice", "ground", "grass"}

type_effectiveness(t, defender_types) ==
    IF defender_types = {"electric"}
    THEN CASE t = "ground" -> "supereffective"
           [] t = "grass" -> "neutral"
           [] t = "ice" -> "neutral"
           [] OTHER -> "neutral"
    ELSE "neutral"

is_not_very_effective(t, defender_types) ==
    type_effectiveness(t, defender_types) = "resisted"

is_super_effective(t, defender_types) ==
    type_effectiveness(t, defender_types) = "supereffective"

is_neutral_effectiveness(t, defender_types) ==
    type_effectiveness(t, defender_types) = "neutral"

\* boost_multiplier_lookup[b] as the fraction BoostNum(b) / BoostDen(b)
BoostNum(b) == IF b >= 0 THEN 2 + b ELSE 2
BoostDen(b) == IF b >= 0 THEN 2 ELSE 2 - b

Min(a, c) == IF a < c THEN a ELSE c
Max(a, c) == IF a > c THEN a ELSE c

----------------------------------------------------------------------------
(* Entities *)

NoBoosts == [s \in Stats |-> 0]

StatRange(mn, mx) == [min |-> mn, max |-> mx]

LastUsedMove(pokemon_name, mv, turn) ==
    [pokemon_name |-> pokemon_name, move |-> mv, turn |-> turn]

SideConditions == {"stealthrock", "spikes", "toxicspikes", "stickyweb", "tailwind"}

\* Pokemon(name, level)
NewPokemon(nm) ==
    [name |-> nm,
     hp |-> pokedex[nm].max_hp, max_hp |-> pokedex[nm].max_hp,
     status |-> None, rest_turns |-> 0, sleep_turns |-> 0,
     gen_3_consecutive_sleep_talks |-> 0, ability |-> None,
     item |-> UNKNOWN_ITEM, item_inferred |-> FALSE, removed_item |-> None,
     impossible_items |-> {}, can_have_choice_item |-> TRUE,
     boosts |-> NoBoosts, volatile_statuses |-> {},
     moves |-> {}, moves_used_since_switch_in |-> {},
     hp_at_switch_in |-> pokedex[nm].max_hp, status_at_switch_in |-> None,
     zoroark_disguised_as |-> None,
     speed_range |-> StatRange(0, INF),
     hidden_power_possibilities |-> HiddenPowerTypes]

\* Pokemon.from_switch_string(details): the species the details name
from_switch_string(details) == NewPokemon(normalize_name(details))

\* a Pokemon as it is after its switch-in from the reserve
SwitchedIn(p) ==
    [p EXCEPT !.impossible_items = @ \cup ITEMS_REVEALED_ON_SWITCH_IN]

\* Battler
NewBattler(nm, act, res) ==
    [name |-> nm, active |-> act, reserve |-> res,
     last_used_move |-> LastUsedMove(None, "", 0),
     last_selected_move |-> LastUsedMove(None, "", 0),
     side_conditions |-> [c \in SideConditions |-> 0]]

\* the battle once the leads are out: the bot's team comes from the
\* request, the opponent's from team preview
NewBattle(generation, battle_type) ==
    [rqid |-> 0, force_switch |-> FALSE, wait |-> FALSE,
     msg_list |-> <<>>, turn |-> 0,
     generation |-> generation, battle_type |-> battle_type,
     weather |-> None, weather_turns_remaining |-> -1, weather_source |-> None,
     trick_room |-> FALSE,
     user |-> NewBattler(UserName,
                 [SwitchedIn(NewPokemon("jolteon")) EXCEPT !.item = "lifeorb"],
                 <<>>),
     opponent |-> NewBattler(OpponentName,
                 SwitchedIn(NewPokemon("gliscor")),
                 <<NewPokemon("zoroark")>>)]

\* the side a line is about, as the handlers select it
SideKey(b, l) == IF is_opponent(b, l) THEN "opponent" ELSE "user"

OtherKey(sk) == IF sk = "opponent" THEN "user" ELSE "opponent"

\* Battler.find_pokemon_in_reserves(name): its index in the reserve, 0 for None
find_pokemon_in_reserves(side, nm) ==
    IF \E k \in 1..Len(side.reserve) : side.reserve[k].name = nm
    THEN CHOOSE k \in 1..Len(side.reserve) :
            /\ side.reserve[k].name = nm
            /\ \A j \in 1..(k - 1) : side.reserve[j].name # nm
    ELSE 0

\* list.remove / list.pop of the element at index k
RemoveAt(s, k) == SubSeq(s, 1, k - 1) \o SubSeq(s, k + 1, Len(s))

----------------------------------------------------------------------------
(* Handlers.  Of a Pokemon the model keeps the fields the inference passes  *)
(* and the item, boost, speed, sleep and disguise bookkeeping use; PP,      *)
(* durations of volatile statuses, impossible abilities and the             *)
(* type and forme changes are not kept, and the branches of the handlers    *)
(* that only touch those are left out.                                      *)

request(b, l) ==
    [b EXCEPT !.rqid = l.n,
              !.force_switch = (l.x = "forceSwitch"),
              !.wait = (l.x = "wait")]

\* the Pokemon a side sends out: found in the reserve or created
switch_in_pokemon(side, details) ==
    LET k == find_pokemon_in_reserves(side, normalize_name(details))
    IN IF k = 0
       THEN from_switch_string(details)
       ELSE [side.reserve[k] EXCEPT !.hp_at_switch_in = side.reserve[k].hp,
                                    !.status_at_switch_in = side.reserve[k].status]

\* the switch-out with a regenerator healing that has no upper limit
switch_out_pokemon_uncapped(old) ==
    [old EXCEPT
        !.moves_used_since_switch_in = {},
        !.boosts = NoBoosts,
        !.volatile_statuses = {},
        !.hp = IF old.hp > 0 /\ old.ability = "regenerator"
               THEN old.hp + (old.max_hp \div 3)
               ELSE old.hp]

\* the active Pokemon as switch_or_drag leaves it when it goes out
switch_out_pokemon(old) ==
    [old EXCEPT
        !.moves_used_since_switch_in = {},
        !.boosts = NoBoosts,
        !.volatile_statuses = {},
        !.hp = IF old.hp > 0 /\ old.ability = "regenerator"
               THEN Min(old.hp + (old.max_hp \div 3), old.max_hp)
               ELSE old.hp]

\* gen5 without the reset of rest_turns and sleep_turns
gen5_keep_rest_turns(generation, pkmn) == pkmn

\* switch_or_drag: gen5 rest turns are reset upon switching
gen5_reset_rest_turns(generation, pkmn) ==
    IF generation = "gen5" /\ pkmn.status = "slp"
    THEN IF pkmn.rest_turns # 0
         THEN [pkmn EXCEPT !.rest_turns = 3]
         ELSE [pkmn EXCEPT !.sleep_turns = 0]
    ELSE pkmn

\* gen3 with the consecutive sleep talks taken off rest_turns
gen3_sleep_talk_turns_taken_off(generation, pkmn) ==
    [(IF generation = "gen3" /\ pkmn.status = "slp"
      THEN IF pkmn.rest_turns # 0
           THEN [pkmn EXCEPT !.rest_turns = @ - pkmn.gen_3_consecutive_sleep_talks]
           ELSE IF pkmn.sleep_turns # 0
           THEN [pkmn EXCEPT !.sleep_turns = @ - pkmn.gen_3_consecutive_sleep_talks]
           ELSE pkmn
      ELSE pkmn)
        EXCEPT !.gen_3_consecutive_sleep_talks = 0]

\* switch_or_drag: the turns a gen3 Pokemon has spent on consecutive sleep
\* talks are given back when it switches, and the count is cleared
gen3_sleep_talk_turns(generation, pkmn) ==
    [(IF generation = "gen3" /\ pkmn.status = "slp"
      THEN IF pkmn.rest_turns # 0
           THEN [pkmn EXCEPT !.rest_turns = @ + pkmn.gen_3_consecutive_sleep_talks]
           ELSE IF pkmn.sleep_turns # 0
           THEN [pkmn EXCEPT !.sleep_turns = @ - pkmn.gen_3_consecutive_sleep_talks]
           ELSE pkmn
      ELSE pkmn)
        EXCEPT !.gen_3_consecutive_sleep_talks = 0]

switch_or_drag(b, l, kind) ==
    LET sk == SideKey(b, l)
        side == b[sk]
        baton == l.ann = "[from] Baton Pass"
        keep == IF baton
                THEN side.active.volatile_statuses \cap {"substitute", "leechseed"}
                ELSE IF l.ann = "[from] Shed Tail"
                     THEN side.active.volatile_statuses \cap {"substitute"}
                     ELSE {}
        out == switch_out_pokemon(
                   gen3_sleep_talk_turns(b.generation,
                       gen5_reset_rest_turns(b.generation, side.active)))
        k == find_pokemon_in_reserves(side, normalize_name(l.x))
        pkmn == switch_in_pokemon(side, l.x)
        reserve1 == IF k = 0 THEN side.reserve ELSE RemoveAt(side.reserve, k)
        new_hp == IF is_opponent(b, l) THEN (pkmn.max_hp * l.n) \div 100 ELSE l.n
        regenerator == /\ is_opponent(b, l)
                       /\ pkmn.hp # new_hp
                       /\ "regenerator" \in pokedex[pkmn.name].abilities
                       /\ pkmn.ability = None
        in == [pkmn EXCEPT
                  !.ability = IF regenerator THEN "regenerator" ELSE @,
                  !.hp = new_hp,
                  !.max_hp = IF is_opponent(b, l) THEN @ ELSE l.max_hp,
                  !.impossible_items = @ \cup ITEMS_REVEALED_ON_SWITCH_IN,
                  !.boosts = IF baton THEN side.active.boosts ELSE @,
                  !.volatile_statuses = @ \cup keep]
        \* Pokemon are compared by species: pkmn != side.active
        reserve2 == IF pkmn.name # out.name THEN Append(reserve1, out) ELSE reserve1
    IN [b EXCEPT ![sk].active = in,
                 ![sk].reserve = reserve2,
                 ![sk].last_used_move =
                     LastUsedMove(None, "switch " \o pkmn.name, b.turn)]

\* "-damage" and "-heal"
heal_or_damage(b, l) ==
    LET sk == SideKey(b, l)
        ok == OtherKey(sk)
        pkmn == b[sk].active
        len == 4 + (IF l.ann # "" THEN 1 ELSE 0) + (IF l.of # "" THEN 1 ELSE 0)
        new_hp == IF l.x = "fnt" THEN 0
                  ELSE IF is_opponent(b, l) THEN (pkmn.max_hp * l.n) \div 100
                  ELSE l.n
        b1 == [b EXCEPT ![sk].active.hp = new_hp,
                        ![sk].active.max_hp =
                            IF is_opponent(b, l) \/ l.x = "fnt" THEN @ ELSE l.max_hp]
        b2 == IF len = 6 /\ IsItemAnnotation(l.ann) /\ l.of = b[ok].name
              THEN [b1 EXCEPT ![ok].active.item = ItemAnnotations[l.ann]]
              ELSE b1
    IN IF len = 5 /\ IsItemAnnotation(l.ann) /\ b2[sk].active.item # None
       THEN [b2 EXCEPT ![sk].active.item = ItemAnnotations[l.ann]]
       ELSE b2

faint(b, l) == [b EXCEPT ![SideKey(b, l)].active.hp = 0]

\* "-sethp": int(max_hp * percentage) for the opponent, the condition of
\* the line for the bot
sethp(b, l) ==
    IF is_opponent(b, l)
    THEN [b EXCEPT !.opponent.active.hp = (b.opponent.active.max_hp * l.n) \div 100]
    ELSE [b EXCEPT !.user.active.hp = l.n, !.user.active.max_hp = l.max_hp]

\* "-start": of the statuses the model has ("dynamax", "confusion",
\* "substitute", "leechseed") Dynamax doubles hp and max_hp
start_volatile_status(b, l) ==
    LET sk == SideKey(b, l)
        volatile_status == normalize_name(l.x)
    IN [b EXCEPT
          ![sk].active.volatile_statuses = @ \cup {volatile_status},
          ![sk].active.impossible_items =
              IF volatile_status = "confusion" THEN @ \cup {"lumberry"} ELSE @,
          ![sk].active.hp = IF volatile_status = "dynamax" THEN 2 * @ ELSE @,
          ![sk].active.max_hp = IF volatile_status = "dynamax" THEN 2 * @ ELSE @]

\* "-end": a status the Pokemon has is removed, and the end of Dynamax
\* halves hp and max_hp (hp /= 2 of an even hp)
end_volatile_status(b, l) ==
    LET sk == SideKey(b, l)
        volatile_status == normalize_name(l.x)
    IN IF volatile_status \notin b[sk].active.volatile_statuses
       THEN b
       ELSE [b EXCEPT
               ![sk].active.volatile_statuses = @ \ {volatile_status},
               ![sk].active.hp = IF volatile_status = "dynamax" THEN @ \div 2 ELSE @,
               ![sk].active.max_hp = IF volatile_status = "dynamax" THEN @ \div 2 ELSE @]

\* "-ability" of a line without a "[from]" part, for an ability other than
\* As One
update_ability(b, l) ==
    [b EXCEPT ![SideKey(b, l)].active.ability = normalize_name(l.x)]

setboost(b, l) ==
    [b EXCEPT ![SideKey(b, l)].active.boosts[l.x] = l.n]

boost(b, l) ==
    [b EXCEPT ![SideKey(b, l)].active.boosts[l.x] = Min(@ + l.n, MAX_BOOSTS)]

unboost(b, l) ==
    [b EXCEPT ![SideKey(b, l)].active.boosts[l.x] = Max(@ - l.n, -1 * MAX_BOOSTS)]

\* "-status"
status(b, l) ==
    LET sk == SideKey(b, l)
    IN [b EXCEPT ![sk].active.item =
                     IF IsItemAnnotation(l.ann) THEN ItemAnnotations[l.ann] ELSE @,
                 ![sk].active.status = l.x,
                 ![sk].active.rest_turns =
                     IF l.x = "slp" /\ l.ann = "[from] move: Rest" /\ l.of = ""
                     THEN 3 ELSE @,
                 ![sk].active.sleep_turns =
                     IF l.x = "slp" /\ split_len(l) = 5
                           /\ l.ann # "[from] move: Rest"
                     THEN 0 ELSE @,
                 ![sk].active.impossible_items = @ \cup {"lumberry"}]

\* "-activate": of the activations the model has ("confusion", "item: Quick
\* Claw", "move: Sticky Web") only an item that is not consumed is recorded
activate(b, l) ==
    IF l.x = "item: Quick Claw" /\ l.ann # "[consumed]"
    THEN [b EXCEPT ![SideKey(b, l)].active.item = "quickclaw"]
    ELSE b

\* the weather a "-weather" line names and the rock that prolongs it
WeatherRock(w) ==
    CASE w = "sunnyday" -> "heatrock"
      [] w = "raindance" -> "damprock"
      [] w = "sandstorm" -> "smoothrock"
      [] w \in {"hail", "snowscape", "snow"} -> "icyrock"
      [] OTHER -> UNKNOWN_ITEM

\* a countdown that stays at zero
weather_turns_not_extended(remaining) == remaining

\* "did not end when expected, giving 3 more turns"
weather_turns_extended(remaining) == IF remaining = 0 THEN 3 ELSE remaining

\* "-weather": x is the weather, ann "[upkeep]" or "[from] ability: ...",
\* of the player of the "[of]" part
weather(b, l) ==
    LET len == 3 + (IF l.ann # "" THEN 1 ELSE 0) + (IF l.of # "" THEN 1 ELSE 0)
        has_side == len = 5
        sk == IF l.of = b.opponent.name THEN "opponent" ELSE "user"
        weather_name == normalize_name(l.x)
        source == IF weather_name = "none" THEN None
                  ELSE IF has_side THEN sk \o ":" \o b[sk].active.name
                  ELSE b.weather_source
        upkeep_line == LastPart(l) = "[upkeep]"
        remaining ==
            IF upkeep_line /\ b.weather_turns_remaining > 0
            THEN b.weather_turns_remaining - 1
            ELSE IF upkeep_line THEN b.weather_turns_remaining
            ELSE IF /\ len > 3
                    /\ b.generation \in {"gen3", "gen4", "gen5"}
                    /\ l.ann \in {"[from] ability: Drought", "[from] ability: Drizzle"}
                 THEN -1
            ELSE IF /\ has_side
                    /\ weather_name \in {"sunnyday", "raindance", "sandstorm",
                                         "hail", "snowscape", "snow"}
                    /\ b[sk].active.item = WeatherRock(weather_name)
                 THEN 8
            ELSE 5
        expired == remaining = 0
        b1 == [b EXCEPT !.weather = weather_name,
                        !.weather_source = source,
                        !.weather_turns_remaining = weather_turns_extended(remaining)]
        \* weather_source.startswith("opponent") and its split(":")[-1]
        src_name == IF \E p \in DOMAIN pokedex : source = "opponent:" \o p
                    THEN CHOOSE p \in DOMAIN pokedex : source = "opponent:" \o p
                    ELSE None
        b2 == IF expired /\ src_name # None
              THEN IF b.opponent.active.name = src_name
                   THEN IF b.opponent.active.item = UNKNOWN_ITEM
                        THEN [b1 EXCEPT !.opponent.active.item = WeatherRock(weather_name)]
                        ELSE b1
                   ELSE LET k == find_pokemon_in_reserves(b.opponent, src_name)
                        IN IF k # 0 /\ b.opponent.reserve[k].item = UNKNOWN_ITEM
                           THEN [b1 EXCEPT !.opponent.reserve[k].item =
                                               WeatherRock(weather_name)]
                           ELSE b1
              ELSE b1
    IN IF has_side /\ l.ann \in {"[from] ability: Drought", "[from] ability: Drizzle"}
       THEN [b2 EXCEPT ![sk].active.ability =
                IF l.ann = "[from] ability: Drought" THEN "drought" ELSE "drizzle"]
       ELSE b2

\* the side condition a "-sidestart" / "-sideend" line names
side_condition_of(x) ==
    CASE x = "move: Stealth Rock" -> "stealthrock"
      [] x = "Spikes" -> "spikes"
      [] x = "move: Toxic Spikes" -> "toxicspikes"
      [] x = "move: Sticky Web" -> "stickyweb"
      [] x = "move: Tailwind" -> "tailwind"

SIDE_CONDITION_DEFAULT_DURATION == [c \in {"tailwind"} |-> 4]

sidestart(b, l) ==
    LET condition == side_condition_of(l.x)
        sk == SideKey(b, l)
    IN IF condition \in DOMAIN SIDE_CONDITION_DEFAULT_DURATION
       THEN [b EXCEPT ![sk].side_conditions[condition] =
                          SIDE_CONDITION_DEFAULT_DURATION[condition]]
       ELSE [b EXCEPT ![sk].side_conditions[condition] = @ + 1]

sideend(b, l) ==
    [b EXCEPT ![SideKey(b, l)].side_conditions[side_condition_of(l.x)] = 0]

\* "-item"
set_item(b, l) ==
    LET sk == SideKey(b, l)
        ok == OtherKey(sk)
        item == normalize_name(l.x)
        len == 4 + (IF l.ann # "" THEN 1 ELSE 0) + (IF l.of # "" THEN 1 ELSE 0)
        b1 == IF /\ len >= 5
                 /\ b[sk].active.removed_item = None
                 /\ item # b[sk].active.item
                 /\ b[sk].active.item # UNKNOWN_ITEM
              THEN [b EXCEPT ![sk].active.removed_item = b[sk].active.item]
              ELSE b
        b2 == IF /\ len >= 5
                 /\ l.ann = "[from] move: Trick"
                 /\ ~is_opponent(b, l)
                 /\ b1[ok].active.removed_item = None
              THEN [b1 EXCEPT ![ok].active.removed_item = item]
              ELSE b1
    IN IF len = 6 /\ l.ann = "[from] ability: Frisk" /\ l.of = l.who
       THEN [b2 EXCEPT ![ok].active.item = item]
       ELSE [b2 EXCEPT ![sk].active.item = item]

\* "-enditem"
remove_item(b, l) ==
    LET sk == SideKey(b, l)
        pkmn == b[sk].active
    IN [b EXCEPT
           ![sk].active.item = None,
           ![sk].active.removed_item =
               IF pkmn.removed_item = None THEN normalize_name(l.x) ELSE @,
           ![sk].active.volatile_statuses =
               IF "unburden" \in pokedex[pkmn.name].abilities
               THEN @ \cup {"unburden"} ELSE @]

\* "-fieldstart": x is the name after the colon of "move: Trick Room"; of
\* the fields only trick room is in the model
fieldstart(b, l) ==
    IF normalize_name(l.x) = "trickroom" THEN [b EXCEPT !.trick_room = TRUE] ELSE b

\* "-fieldend"
fieldend(b, l) ==
    IF normalize_name(l.x) = "trickroom" THEN [b EXCEPT !.trick_room = FALSE] ELSE b

zpower(b, l) == [b EXCEPT ![SideKey(b, l)].active.item = None]

\* "cant" because of sleep while rest_turns is 1: exit(1)
cant_exits(b, l) ==
    /\ l.tag = "cant"
    /\ l.x = "slp" /\ l.ann = "" /\ l.of = ""
    /\ b[SideKey(b, l)].active.rest_turns = 1

\* "cant": a turn asleep comes off rest_turns, or is added to sleep_turns
cant(b, l) ==
    LET sk == SideKey(b, l)
    IN [b EXCEPT
          ![sk].last_used_move =
              LastUsedMove(b[sk].active.name, b[sk].last_used_move.move, b.turn),
          ![sk].active.rest_turns =
              IF l.x = "slp" /\ l.ann = "" /\ l.of = "" /\ @ > 1 THEN @ - 1 ELSE @,
          ![sk].active.sleep_turns =
              IF l.x = "slp" /\ l.ann = "" /\ l.of = ""
                    /\ b[sk].active.rest_turns < 1
              THEN @ + 1 ELSE @]

upkeep(b, l) ==
    LET dec(side) ==
            [side EXCEPT
                !.side_conditions["tailwind"] = IF @ > 0 THEN @ - 1 ELSE @,
                !.active.volatile_statuses = @ \ {"roost"},
                !.active.gen_3_consecutive_sleep_talks =
                    IF /\ b.generation = "gen3"
                       /\ side.active.status = "slp"
                       /\ side.last_used_move.move # "sleeptalk"
                    THEN 0 ELSE @]
        b1 == [b EXCEPT !.user = dec(@), !.opponent = dec(@)]
        opp_pkmn == b1.opponent.active
        b2 == IF opp_pkmn.hp < opp_pkmn.max_hp
              THEN [b1 EXCEPT !.opponent.active.impossible_items =
                                  @ \cup {"leftovers", "blacksludge"}]
              ELSE b1
    IN IF opp_pkmn.status = None
       THEN [b2 EXCEPT !.opponent.active.impossible_items =
                           @ \cup {"flameorb", "toxicorb"}]
       ELSE b2

turn(b, l) == [b EXCEPT !.turn = l.n]

----------------------------------------------------------------------------
(* The set datasets: process-wide objects, one list of candidate sets per   *)
(* species.  A candidate carries what the passes read of it: ability, item, *)
(* moves, and the damage the damage-roll service answers for it (the best   *)
(* roll and the best critical roll, in HP), for the opponent's move and for *)
(* the bot's.                                                               *)

PredictedPokemonSet(ability, item, moves, dealt, received) ==
    [ability |-> ability, item |-> item, moves |-> moves,
     damage_dealt |-> dealt, damage_received |-> received]

\* PokemonSets.get_key_in_dict_from_pkmn_name
get_key_in_dict_from_pkmn_name(pkmn_name, d) ==
    IF pkmn_name \in DOMAIN d THEN d[pkmn_name] ELSE <<>>

\* PokemonSets.get_pkmn_sets_from_pkmn_name: the list itself, not a copy
get_pkmn_sets_from_pkmn_name(d, pkmn_name) ==
    get_key_in_dict_from_pkmn_name(pkmn_name, d)

\* get_all_possible_moves(pkmn) of a dataset
get_all_possible_moves(d, pkmn_name) ==
    LET sets == get_pkmn_sets_from_pkmn_name(d, pkmn_name)
    IN UNION {sets[i].moves : i \in 1..Len(sets)}

BattleTypes == {"RANDOM_BATTLE", "BATTLE_FACTORY", "STANDARD_BATTLE"}

----------------------------------------------------------------------------
(* Zoroark *)

\* the swap leaving the Zoroark in the reserve
switch_active_with_zoroark_kept_in_reserve(side, k) ==
    [side EXCEPT !.active = [side.reserve[k] EXCEPT !.zoroark_disguised_as = side.active.name],
                 !.reserve = Append(side.reserve, side.active)]

\* the side after the active Pokemon was found to be the Zoroark at index k
\* of the reserve
switch_active_with_zoroark_from_reserves(side, k) ==
    LET pkmn == side.active
        zoroark == side.reserve[k]
        z == [zoroark EXCEPT
                 !.moves = @ \cup pkmn.moves_used_since_switch_in,
                 !.hp = (zoroark.max_hp * pkmn.hp) \div pkmn.max_hp,
                 !.boosts = pkmn.boosts,
                 !.status = pkmn.status,
                 !.volatile_statuses = pkmn.volatile_statuses,
                 !.zoroark_disguised_as = pkmn.name]
        p == [pkmn EXCEPT
                 !.moves = @ \ pkmn.moves_used_since_switch_in,
                 !.boosts = NoBoosts,
                 !.status = None,
                 !.volatile_statuses = {}]
    IN [side EXCEPT !.active = z,
                    !.reserve = RemoveAt(Append(side.reserve, p), k)]

\* "replace"
illusion_end(b, l) ==
    LET sk == SideKey(b, l)
        side == b[sk]
        old == side.active
        k == find_pokemon_in_reserves(side, normalize_name(l.x))
        pkmn_disguised_as ==
            [old EXCEPT !.item = UNKNOWN_ITEM,
                        !.moves = @ \ old.moves_used_since_switch_in,
                        !.hp = old.hp_at_switch_in,
                        !.status = old.status_at_switch_in]
        zoroark == IF k # 0 THEN side.reserve[k] ELSE from_switch_string(l.x)
        reserve1 == Append(side.reserve, pkmn_disguised_as)
        new_active ==
            [zoroark EXCEPT
                !.moves = @ \cup old.moves_used_since_switch_in,
                !.hp = (zoroark.max_hp * old.hp) \div old.max_hp,
                !.boosts = old.boosts,
                !.status = old.status,
                !.item = old.item,
                !.zoroark_disguised_as = None]
    IN IF /\ is_opponent(b, l)
          /\ old.name \notin {"zoroark", "zoroarkhisui"}
          /\ old.zoroark_disguised_as = None
       THEN [b EXCEPT ![sk].active = new_active,
                      ![sk].reserve = IF k # 0 THEN RemoveAt(reserve1, k) ELSE reserve1]
       ELSE [b EXCEPT ![sk].active.zoroark_disguised_as = None]

----------------------------------------------------------------------------
(* move *)

\* "from" in split_msg[-1], for the last part of a move line
from_in_last_part(l) ==
    IsFromAnnotation(l.ann) \/ l.ann \in {"[from]lockedmove", "[from] lockedmove"}

\* any part of the line has "[from]" in it and is not a locked move
has_from_part(l) == IsFromAnnotation(l.ann)

called_by_sleep_talk(l) == l.ann \in {"[from]Sleep Talk", "[from]move: Sleep Talk"}

unlikely_to_have_choice_item(move_name) ==
    IF move_name \notin DOMAIN all_move_json THEN FALSE
    ELSE IF all_move_json[move_name].boosts
            /\ all_move_json[move_name].category = "status" THEN TRUE
    ELSE move_name \in {"substitute", "roost", "recover"}

\* the Zoroark detection at the head of move: the side as it is afterwards
move_zoroark_detection(b, ds, l) ==
    LET side == b.opponent
        pkmn == side.active
        move_name == normalize_name(l.x)
        k == find_pokemon_in_reserves(side, "zoroark")
        team == /\ k # 0
                /\ "transform" \notin pkmn.volatile_statuses
                /\ b.battle_type \in {"BATTLE_FACTORY", "STANDARD_BATTLE"}
                /\ move_name \notin get_all_possible_moves(ds.team, pkmn.name)
                /\ move_name \in get_all_possible_moves(ds.team, "zoroark")
                /\ ~from_in_last_part(l)
        random == /\ b.battle_type = "RANDOM_BATTLE"
                  /\ "transform" \notin pkmn.volatile_statuses
                  /\ move_name \notin get_all_possible_moves(ds.random, pkmn.name)
                  /\ ~from_in_last_part(l)
        \* random battles: the Zoroark of the reserve, or a new one (the
        \* Hisuian one first) when the reserve has none
        new_name == IF move_name \in get_all_possible_moves(ds.random, "zoroarkhisui")
                    THEN "zoroarkhisui"
                    ELSE IF move_name \in get_all_possible_moves(ds.random, "zoroark")
                         THEN "zoroark" ELSE None
    IN IF team THEN switch_active_with_zoroark_from_reserves(side, k)
       ELSE IF random /\ k # 0
                /\ move_name \in get_all_possible_moves(ds.random, "zoroark")
            THEN switch_active_with_zoroark_from_reserves(side, k)
       ELSE IF random /\ k = 0 /\ new_name # None
                /\ b.generation \notin {"gen1", "gen2", "gen3", "gen4"}
            THEN switch_active_with_zoroark_from_reserves(
                     [side EXCEPT !.reserve = Append(@, NewPokemon(new_name))],
                     Len(side.reserve) + 1)
       ELSE side

two_different_moves_never(b, l) == FALSE

\* the opponent's active Pokemon has now used two different moves without
\* switching
two_different_moves(b, l) ==
    /\ is_opponent(b, l)
    /\ b[SideKey(b, l)].last_used_move.pokemon_name = b[SideKey(b, l)].active.name
    /\ b[SideKey(b, l)].last_used_move.move # normalize_name(l.x)

downgrade_any_item(pkmn) == TRUE

\* the item of a Pokemon that used two different moves is set to UNKNOWN
downgrade_choice_item(pkmn) ==
    pkmn.item \in CHOICE_ITEMS /\ pkmn.item_inferred

\* the part of move after the early returns for called moves and Struggle
move_bookkeeping(b, l) ==
    LET sk == SideKey(b, l)
        pkmn == b[sk].active
        move_name == normalize_name(l.x)
        known == move_name \in DOMAIN all_move_json
        category == IF known THEN all_move_json[move_name].category ELSE None
        p1 == [pkmn EXCEPT
                  !.moves_used_since_switch_in = @ \cup {move_name},
                  !.moves = IF known THEN @ \cup {move_name} ELSE @,
                  !.can_have_choice_item =
                      IF two_different_moves(b, l)
                            \/ unlikely_to_have_choice_item(move_name)
                      THEN FALSE ELSE @,
                  !.item = IF two_different_moves(b, l) /\ downgrade_choice_item(pkmn)
                           THEN UNKNOWN_ITEM ELSE @,
                  !.impossible_items =
                      @ \cup (IF known /\ category # "status"
                              THEN {all_move_json[move_name].type \o "gem"} ELSE {})
                        \cup (IF known /\ category = "status"
                              THEN {"assaultvest"} ELSE {})
                        \cup (IF category \in DAMAGING_CATEGORIES
                                 /\ pokedex[pkmn.name].abilities
                                        \cap {"sheerforce", "magicguard"} = {}
                              THEN {"lifeorb"} ELSE {})]
    IN [b EXCEPT ![sk].active = p1,
                 ![sk].last_used_move =
                     LastUsedMove(pkmn.name,
                                  IF known THEN move_name ELSE DO_NOTHING_MOVE,
                                  b.turn)]

\* move: the moves a gen3 Pokemon has had called by Sleep Talk in a row
count_sleep_talks(b, l) ==
    [b EXCEPT ![SideKey(b, l)].active.gen_3_consecutive_sleep_talks =
        IF "[from]Sleep Talk" \in {l.ann, l.of} /\ b.generation = "gen3"
        THEN @ + 1
        ELSE IF normalize_name(l.x) # "sleeptalk" THEN 0 ELSE @]

\* move once the Zoroark detection is done
move_after_detection(counted, l) ==
    LET b == count_sleep_talks(counted, l)
        sk == SideKey(b, l)
        move_name == normalize_name(l.x)
    IN IF called_by_sleep_talk(l)
       THEN [b EXCEPT ![sk].active.moves = @ \cup {move_name}]
       ELSE IF has_from_part(l)
       THEN IF l.ann = "[from] ability: Magic Bounce"
            THEN [b EXCEPT ![sk].active.ability = "magicbounce"]
            ELSE b
       ELSE IF move_name = "struggle"
       THEN [b EXCEPT ![sk].active.volatile_statuses = @ \ {"destinybond", move_name}]
       ELSE move_bookkeeping(
                [b EXCEPT ![sk].active.volatile_statuses = @ \ {"destinybond", move_name}],
                l)

move(b, ds, l) ==
    IF is_opponent(b, l)
    THEN move_after_detection([b EXCEPT !.opponent = move_zoroark_detection(b, ds, l)], l)
    ELSE move_after_detection(b, l)
----------------------------------------------------------------------------
(* Inference passes *)

PokemonNames == DOMAIN pokedex

\* move.startswith("switch ")
starts_with_switch(m) == \E p \in PokemonNames : m = "switch " \o p

can_have_priority_modified(b, pokemon, move_name) ==
    \/ "prankster" \in pokedex[pokemon.name].abilities
    \/ /\ move_name \in DOMAIN all_move_json
       /\ all_move_json[move_name].category = "status"
       /\ "myceliummight" \in pokedex[pokemon.name].abilities

can_have_speed_modified(b, pokemon) ==
    LET abilities == pokedex[pokemon.name].abilities
    IN \/ pokemon.item = None /\ "unburden" \in abilities
       \/ b.weather = "raindance" /\ pokemon.ability = None /\ "swiftswim" \in abilities
       \/ b.weather = "sunnyday" /\ pokemon.ability = None /\ "chlorophyll" \in abilities
       \/ b.weather = "sandstorm" /\ pokemon.ability = None /\ "sandrush" \in abilities
       \/ /\ b.weather \in {"hail", "snowscape", "snow"}
          /\ pokemon.ability = None /\ "slushrush" \in abilities
       \/ pokemon.status = "par" /\ pokemon.ability = None /\ "quickfeet" \in abilities

\* every move is given the priority 0
get_move_information_without_priority(l) ==
    LET id == normalize_name(l.x)
    IN [who |-> l.who,
        move |-> IF id \in DOMAIN all_move_json
                 THEN [id |-> id, priority |-> 0]
                 ELSE UnknownMove]

\* get_move_information(m): who moved and the entry of the move
get_move_information(l) ==
    LET id == normalize_name(l.x)
    IN [who |-> l.who,
        move |-> IF id \in DOMAIN all_move_json
                 THEN [id |-> id, priority |-> all_move_json[id].priority]
                 ELSE UnknownMove]

\* the |move| lines of the batch, in order
move_lines(msg_lines) == SelectSeq(msg_lines, LAMBDA l : l.tag = "move")

\* int(x / 1.5) and int(x * 1.5)
DivOneAndHalf(x) == (2 * x) \div 3
MulOneAndHalf(x) == (3 * x) \div 2

speed_check_disqualified_by_hint(msg_lines) ==
    \E i \in 1..Len(msg_lines) : msg_lines[i].tag \in {"switch", "cant", "-hint"}

\* the lines that make check_speed_ranges return at once
speed_check_disqualified(msg_lines) ==
    \E i \in 1..Len(msg_lines) :
        LET ln == msg_lines[i]
        IN \/ ln.tag = "switch"
           \/ ln.tag = "cant"
           \/ ln.tag = "-activate" /\ LastPart(ln) = "confusion"
           \/ ln.tag = "-enditem" /\ ln.x = "Custap Berry"
           \/ MentionsQuickClaw(ln)
           \/ MentionsQuickDraw(ln)

speed_threshold(b) ==
    LET user == b.user.active
        opp == b.opponent.active
        old_gen == b.generation \in {"gen4", "gen5", "gen6"}
        t0 == (BoostNum(user.boosts["speed"]) * pokedex[user.name].speed
                  * BoostDen(opp.boosts["speed"]))
              \div (BoostDen(user.boosts["speed"]) * BoostNum(opp.boosts["speed"]))
        t1 == IF "protosynthesisspe" \in opp.volatile_statuses
              THEN DivOneAndHalf(t0) ELSE t0
        t2 == IF b.opponent.side_conditions["tailwind"] > 0 THEN t1 \div 2 ELSE t1
        t3 == IF b.user.side_conditions["tailwind"] > 0 THEN t2 * 2 ELSE t2
        t4 == IF opp.status = "par"
              THEN (IF old_gen THEN t3 * 4 ELSE t3 * 2) ELSE t3
        t5 == IF user.status = "par"
              THEN (IF old_gen THEN t4 \div 4 ELSE t4 \div 2) ELSE t4
        t6 == IF user.item = "choicescarf" THEN MulOneAndHalf(t5) ELSE t5
    IN IF "protosynthesisspe" \in user.volatile_statuses
       THEN MulOneAndHalf(t6) ELSE t6

\* the threshold replaces the bound instead of being intersected with it
check_speed_ranges_overwriting(b, msg_lines) ==
    LET mvs == move_lines(msg_lines)
        n == Len(mvs)
        first == get_move_information(mvs[1])
        one_by_opponent == /\ n = 1
                           /\ first.who = b.opponent.name
                           /\ first.move.id # "pursuit"
        second == IF n = 2 THEN get_move_information(mvs[2]).move
                  ELSE all_move_json[normalize_name(b.user.last_selected_move.move)]
        bot_went_first == first.who = b.user.name
        opp == b.opponent.active
        threshold == speed_threshold(b)
        lower_max == (bot_went_first /\ ~b.trick_room) \/ (~bot_went_first /\ b.trick_room)
    IN IF speed_check_disqualified(msg_lines) THEN b
       ELSE IF n \notin {1, 2} THEN b
       ELSE IF n = 1 /\ ~one_by_opponent THEN b
       ELSE IF first.move.priority # second.priority \/ first.move.id = "encore" THEN b
       ELSE IF \/ opp.item = "choicescarf"
               \/ can_have_speed_modified(b, opp)
               \/ ~bot_went_first /\ can_have_priority_modified(b, opp, first.move.id)
               \/ bot_went_first
                     /\ can_have_priority_modified(b, b.user.active, first.move.id)
            THEN b
       ELSE IF lower_max
            THEN [b EXCEPT !.opponent.active.speed_range =
                     StatRange(opp.speed_range.min, threshold)]
            ELSE [b EXCEPT !.opponent.active.speed_range =
                     StatRange(threshold, opp.speed_range.max)]

\* check_speed_ranges without any guard on the resulting range
check_speed_ranges(b, msg_lines) ==
    LET mvs == move_lines(msg_lines)
        n == Len(mvs)
        first == get_move_information(mvs[1])
        one_by_opponent == /\ n = 1
                           /\ first.who = b.opponent.name
                           /\ first.move.id # "pursuit"
        second == IF n = 2 THEN get_move_information(mvs[2]).move
                  ELSE all_move_json[normalize_name(b.user.last_selected_move.move)]
        bot_went_first == first.who = b.user.name
        opp == b.opponent.active
        threshold == speed_threshold(b)
        lower_max == (bot_went_first /\ ~b.trick_room) \/ (~bot_went_first /\ b.trick_room)
    IN IF speed_check_disqualified(msg_lines) THEN b
       ELSE IF n \notin {1, 2} THEN b
       ELSE IF n = 1 /\ ~one_by_opponent THEN b
       ELSE IF first.move.priority # second.priority \/ first.move.id = "encore" THEN b
       ELSE IF \/ opp.item = "choicescarf"
               \/ can_have_speed_modified(b, opp)
               \/ ~bot_went_first /\ can_have_priority_modified(b, opp, first.move.id)
               \/ bot_went_first
                     /\ can_have_priority_modified(b, b.user.active, first.move.id)
            THEN b
       ELSE IF lower_max
            THEN [b EXCEPT !.opponent.active.speed_range =
                     StatRange(opp.speed_range.min, Min(opp.speed_range.max, threshold))]
            ELSE [b EXCEPT !.opponent.active.speed_range =
                     StatRange(Max(opp.speed_range.min, threshold), opp.speed_range.max)]

\* Battle.get_effective_speed(battler), with stat as the speed stat
get_effective_speed(b, sk, stat) ==
    LET pkmn == b[sk].active
        s0 == (BoostNum(pkmn.boosts["speed"]) * stat) \div BoostDen(pkmn.boosts["speed"])
        s1 == IF pkmn.item = "choicescarf" THEN MulOneAndHalf(s0) ELSE s0
        s2 == IF b[sk].side_conditions["tailwind"] > 0 THEN s1 * 2 ELSE s1
    IN IF pkmn.status = "par" THEN s2 \div 2 ELSE s2

check_choicescarf(b, msg_lines) ==
    LET mvs == move_lines(msg_lines)
        n == Len(mvs)
        first == get_move_information(mvs[1])
        second == IF n = 2 THEN get_move_information(mvs[2]).move
                  ELSE all_move_json[normalize_name(b.user.last_selected_move.move)]
        opp == b.opponent.active
        stat == IF b.battle_type = "RANDOM_BATTLE" THEN pokedex[opp.name].rand_speed
                ELSE IF b.trick_room THEN pokedex[opp.name].min_speed
                ELSE pokedex[opp.name].max_speed
        opponent_effective_speed == get_effective_speed(b, "opponent", stat)
        bot_effective_speed ==
            get_effective_speed(b, "user", pokedex[b.user.active.name].speed)
        has_scarf == IF b.trick_room
                     THEN opponent_effective_speed > bot_effective_speed
                     ELSE bot_effective_speed > opponent_effective_speed
    IN IF \/ \E i \in 1..Len(msg_lines) :
                \/ b.generation \in {"gen1", "gen2", "gen3"}
                \/ msg_lines[i].tag = "switch"
                \/ msg_lines[i].tag = "cant"
                \/ msg_lines[i].tag = "-activate" /\ LastPart(msg_lines[i]) = "confusion"
          \/ starts_with_switch(b.user.last_selected_move.move)
       THEN b
       ELSE IF n \notin {1, 2} THEN b
       ELSE IF first.who = b.user.name THEN b
       ELSE IF first.move.priority # second.priority THEN b
       ELSE IF \/ opp.item # UNKNOWN_ITEM
               \/ ~opp.can_have_choice_item
               \/ can_have_speed_modified(b, opp)
               \/ can_have_priority_modified(b, opp, first.move.id)
               \/ can_have_priority_modified(b, b.user.active, second.id)
               \/ b.user.active.ability = "unburden" /\ b.user.active.item = None
            THEN b
       ELSE IF has_scarf
            THEN [b EXCEPT !.opponent.active.item = "choicescarf",
                           !.opponent.active.item_inferred = TRUE]
            ELSE b

\* check_opponent_hiddenpower(battle, msg_line)
check_opponent_hiddenpower(b, l) ==
    LET defender_types == pokedex[b.user.active.name].types
        keep(t) == CASE l.tag = "-resisted" -> is_not_very_effective(t, defender_types)
                     [] l.tag = "-supereffective" -> is_super_effective(t, defender_types)
                     [] l.tag = "-damage" -> is_neutral_effectiveness(t, defender_types)
                     [] OTHER -> TRUE
    IN [b EXCEPT !.opponent.active.hidden_power_possibilities = {t \in @ : keep(t)}]


has_type(pkmn, t) == t \in pokedex[pkmn.name].types

\* check_heavydutyboots taking any "-damage" line with a "[from]" part for
\* the damage of the hazard
check_heavydutyboots_any_damage(b, msg_lines) ==
    LET side == b.opponent
        pkmn == side.active
        abilities == pokedex[pkmn.name].abilities
        took(source) ==
            \E i \in 1..Len(msg_lines) :
                /\ split_len(msg_lines[i]) > 4
                /\ msg_lines[i].tag = "-damage"
                /\ msg_lines[i].who = side.name
                /\ msg_lines[i].ann # ""
        stop_at == {i \in 1..Len(msg_lines) : msg_lines[i].tag \in {"move", "upkeep", ""}}
        last == IF stop_at = {} THEN Len(msg_lines)
                ELSE (CHOOSE i \in stop_at : \A j \in stop_at : i <= j) - 1
        poisoned ==
            \E i \in 1..last :
                /\ msg_lines[i].tag = "-status"
                /\ msg_lines[i].x \in {"psn", "tox"}
                /\ msg_lines[i].who = side.name
        webbed ==
            \E i \in 1..Len(msg_lines) :
                /\ split_len(msg_lines[i]) = 4
                /\ msg_lines[i].tag = "-activate"
                /\ msg_lines[i].who = side.name
                /\ msg_lines[i].x = "move: Sticky Web"
        decide(affected) ==
            IF ~affected
            THEN [b EXCEPT !.opponent.active.item = "heavydutyboots",
                           !.opponent.active.item_inferred = TRUE]
            ELSE [b EXCEPT !.opponent.active.impossible_items =
                               @ \cup {"heavydutyboots"}]
    IN IF \/ b.generation \notin {"gen8", "gen9"}
          \/ pkmn.item # UNKNOWN_ITEM
          \/ "magicguard" \in abilities
       THEN b
       ELSE IF side.side_conditions["stealthrock"] > 0
            THEN decide(took("[from] Stealth Rock"))
       ELSE IF /\ side.side_conditions["spikes"] > 0
               /\ "levitate" \notin abilities
               /\ ~has_type(pkmn, "flying")
               /\ pkmn.ability # "levitate"
            THEN decide(took("[from] Spikes"))
       ELSE IF /\ side.side_conditions["toxicspikes"] > 0
               /\ pkmn.status = None
               /\ ~has_type(pkmn, "flying")
               /\ ~has_type(pkmn, "poison")
               /\ ~has_type(pkmn, "steel")
               /\ pkmn.ability # "levitate"
               /\ "levitate" \notin abilities
               /\ pkmn.ability \notin IMMUNE_TO_POISON_ABILITIES
            THEN decide(poisoned)
       ELSE IF /\ side.side_conditions["stickyweb"] > 0
               /\ ~has_type(pkmn, "flying")
               /\ "levitate" \notin abilities
            THEN decide(webbed)
       ELSE b

\* check_heavydutyboots(battle, msg_lines), msg_lines the lines after the
\* opponent's switch
check_heavydutyboots(b, msg_lines) ==
    LET side == b.opponent
        pkmn == side.active
        abilities == pokedex[pkmn.name].abilities
        took(source) ==
            \E i \in 1..Len(msg_lines) :
                /\ split_len(msg_lines[i]) > 4
                /\ msg_lines[i].tag = "-damage"
                /\ msg_lines[i].who = side.name
                /\ msg_lines[i].ann = source
        stop_at == {i \in 1..Len(msg_lines) : msg_lines[i].tag \in {"move", "upkeep", ""}}
        last == IF stop_at = {} THEN Len(msg_lines)
                ELSE (CHOOSE i \in stop_at : \A j \in stop_at : i <= j) - 1
        poisoned ==
            \E i \in 1..last :
                /\ msg_lines[i].tag = "-status"
                /\ msg_lines[i].x \in {"psn", "tox"}
                /\ msg_lines[i].who = side.name
        webbed ==
            \E i \in 1..Len(msg_lines) :
                /\ split_len(msg_lines[i]) = 4
                /\ msg_lines[i].tag = "-activate"
                /\ msg_lines[i].who = side.name
                /\ msg_lines[i].x = "move: Sticky Web"
        decide(affected) ==
            IF ~affected
            THEN [b EXCEPT !.opponent.active.item = "heavydutyboots",
                           !.opponent.active.item_inferred = TRUE]
            ELSE [b EXCEPT !.opponent.active.impossible_items =
                               @ \cup {"heavydutyboots"}]
    IN IF \/ b.generation \notin {"gen8", "gen9"}
          \/ pkmn.item # UNKNOWN_ITEM
          \/ "magicguard" \in abilities
       THEN b
       ELSE IF side.side_conditions["stealthrock"] > 0
            THEN decide(took("[from] Stealth Rock"))
       ELSE IF /\ side.side_conditions["spikes"] > 0
               /\ "levitate" \notin abilities
               /\ ~has_type(pkmn, "flying")
               /\ pkmn.ability # "levitate"
            THEN decide(took("[from] Spikes"))
       ELSE IF /\ side.side_conditions["toxicspikes"] > 0
               /\ pkmn.status = None
               /\ ~has_type(pkmn, "flying")
               /\ ~has_type(pkmn, "poison")
               /\ ~has_type(pkmn, "steel")
               /\ pkmn.ability # "levitate"
               /\ "levitate" \notin abilities
               /\ pkmn.ability \notin IMMUNE_TO_POISON_ABILITIES
            THEN decide(poisoned)
       ELSE IF /\ side.side_conditions["stickyweb"] > 0
               /\ ~has_type(pkmn, "flying")
               /\ "levitate" \notin abilities
            THEN decide(webbed)
       ELSE b

----------------------------------------------------------------------------
(* Damage-roll validation.  Damage is kept in percent of the defender's   *)
(* HP: percent_damage 37 is the 0.37 of the code.                         *)

DamageDealt(move_name, percent_damage, crit) ==
    [found |-> TRUE, move |-> move_name, percent_damage |-> percent_damage,
     crit |-> crit]

\* what get_damage_dealt returns when it finds no damage line (None)
NoDamageDealt == [found |-> FALSE, move |-> "", percent_damage |-> 0, crit |-> FALSE]

get_damage_dealt(b, l, next_messages) ==
    LET defending_side == IF is_opponent(b, l) THEN b.user ELSE b.opponent
        def == defending_side.active
        is_end(ln) == split_len_lt_2(ln) \/ ln.tag \in MOVE_END_STRINGS
        is_damage(ln) == ln.tag = "-damage" /\ ln.who = defending_side.name
        stops == {i \in 1..Len(next_messages) :
                     is_end(next_messages[i]) \/ is_damage(next_messages[i])}
        j == CHOOSE i \in stops : \A k \in stops : i <= k
        ln == next_messages[j]
        \* the HP left as the line shows it, in HP of the defender
        final_health == IF ln.x = "fnt" THEN 0
                        ELSE IF defending_side.name = b.opponent.name
                             THEN (def.max_hp * ln.n) \div 100
                             ELSE ln.n
        percent_damage == ((def.hp - final_health) * 100) \div def.max_hp
        critical_hit == \E i \in 1..(j - 1) : next_messages[i].tag = "-crit"
    IN IF stops = {} THEN NoDamageDealt
       ELSE IF is_end(ln) THEN NoDamageDealt
       ELSE DamageDealt(normalize_name(l.x), percent_damage, critical_hit)

\* _do_check on one list of candidate sets; max_hp is the max_hp the
\* percentage is scaled with.  The bounds are those of the code times
\* 100000 and 1000:
\*     actual < max_damage * 0.85 * 0.975 - 5
\*     actual > max_damage * 1.025 + 5             with actual = pct * max_hp / 100
do_check(possibilites, check_type, damage_dealt, max_hp, check_lower_bound, allow_emptying) ==
    LET max_damage(p) == IF damage_dealt.crit THEN p[check_type][2]
                         ELSE p[check_type][1]
        actual_times_100 == damage_dealt.percent_damage * max_hp
        lower_bound_violated(p) ==
            /\ check_lower_bound
            /\ actual_times_100 * 1000 < max_damage(p) * 82875 - 500000
        upper_bound_violated(p) ==
            actual_times_100 * 10 > max_damage(p) * 1025 + 5000
        violated(p) == lower_bound_violated(p) \/ upper_bound_violated(p)
        indicies_to_remove == {i \in 1..Len(possibilites) : violated(possibilites[i])}
    IN IF Cardinality(indicies_to_remove) = Len(possibilites) /\ ~allow_emptying
       THEN possibilites
       ELSE SelectSeq(possibilites, LAMBDA p : ~violated(p))

UncheckedSpecies ==
    {"ditto", "shedinja", "terapagosterastal", "meloetta", "meloettapirouette"}

\* the conditions under which update_dataset_possibilities returns at once
damage_check_skipped(b, damage_dealt, check_type) ==
    LET mv == damage_dealt.move
    IN \/ b.wait
       \/ b.opponent.active.hp <= 0
       \/ b.opponent.active.name \in UncheckedSpecies
       \/ b.user.active.name \in UncheckedSpecies
       \/ mv \notin DOMAIN all_move_json
       \/ all_move_json[mv].category = "status"
       \/ all_move_json[mv].multiaccuracy
       \/ mv = "hiddenpower"
       \/ damage_dealt.percent_damage = 0
       \/ check_type = "damage_dealt" /\ b.opponent.last_used_move.move # mv
       \/ check_type = "damage_received" /\ b.user.last_used_move.move # mv
       \/ mv \in {"pursuit", "struggle", "counter", "mirrorcoat", "metalburst",
                  "foulplay", "meteorbeam", "electroshot", "ficklebeam",
                  "lashout", "ragefist", "shellsidearm", "futuresight"}

\* check_lower_bound as update_dataset_possibilities computes it
check_lower_bound(b, damage_dealt, check_type) ==
    LET pkmn == IF check_type = "damage_dealt" THEN b.user.active
                ELSE b.opponent.active
        percent_hp == (pkmn.hp * 100) \div pkmn.max_hp
        diff == damage_dealt.percent_damage - percent_hp
    IN ~(diff < 2 /\ diff > -2)

dataset_checks_statistics_unguarded(battle_type) ==
    IF battle_type = "STANDARD_BATTLE"
    THEN <<[dataset |-> "team", allow_emptying |-> FALSE],
           [dataset |-> "smogon", allow_emptying |-> TRUE]>>
    ELSE <<[dataset |-> IF battle_type = "RANDOM_BATTLE" THEN "random" ELSE "team",
            allow_emptying |-> FALSE]>>

\* the datasets update_dataset_possibilities checks for a battle type, in
\* order, each with the allow_emptying it passes to _do_check
dataset_checks(battle_type) ==
    IF battle_type = "RANDOM_BATTLE"
    THEN <<[dataset |-> "random", allow_emptying |-> FALSE]>>
    ELSE IF battle_type = "BATTLE_FACTORY"
    THEN <<[dataset |-> "team", allow_emptying |-> FALSE]>>
    ELSE <<[dataset |-> "team", allow_emptying |-> TRUE],
           [dataset |-> "smogon", allow_emptying |-> FALSE]>>

\* the _do_check calls of update_dataset_possibilities, on the lists of the
\* opponent's active Pokemon
RECURSIVE do_checks(_, _, _, _, _)
do_checks(ds, b, damage_dealt, check_type, checks) ==
    IF checks = <<>> THEN ds
    ELSE LET c == Head(checks)
             nm == b.opponent.active.name
             max_hp == IF check_type = "damage_dealt" THEN b.user.active.max_hp
                       ELSE b.opponent.active.max_hp
             pruned == do_check(get_pkmn_sets_from_pkmn_name(ds[c.dataset], nm),
                                check_type, damage_dealt, max_hp,
                                check_lower_bound(b, damage_dealt, check_type),
                                c.allow_emptying)
             ds1 == IF nm \in DOMAIN ds[c.dataset]
                    THEN [ds EXCEPT ![c.dataset][nm] = pruned]
                    ELSE ds
         IN do_checks(ds1, b, damage_dealt, check_type, Tail(checks))

\* update_dataset_possibilities reaches its dataset lookups, which call
\* get_pkmn_sets_from_pkmn_name(pkmn_name, pkmn_base_name) with the one
\* argument battle.opponent.active: the call raises TypeError
update_dataset_possibilities_passes(b, damage_dealt, check_type) == FALSE

update_dataset_possibilities_raises(b, damage_dealt, check_type) ==
    ~damage_check_skipped(b, damage_dealt, check_type)

\* the candidate lists update_dataset_possibilities leaves: they are lists
\* of the datasets of the process, and _do_check removes from them in place
update_dataset_possibilities(ds, b, damage_dealt, check_type) ==
    IF \/ damage_check_skipped(b, damage_dealt, check_type)
       \/ update_dataset_possibilities_raises(b, damage_dealt, check_type)
    THEN ds
    ELSE do_checks(ds, b, damage_dealt, check_type, dataset_checks(b.battle_type))
----------------------------------------------------------------------------
(* process_battle_updates *)

\* battle_modifiers_lookup.get(action)(battle, split_msg); the handlers that
\* only touch fields the model does not keep leave the battle as it is
function_to_call(b, ds, l) ==
    CASE l.tag = "switch" -> switch_or_drag(b, l, "switch")
      [] l.tag = "drag" -> switch_or_drag(b, l, "drag")
      [] l.tag = "faint" -> faint(b, l)
      [] l.tag \in {"-heal", "-damage"} -> heal_or_damage(b, l)
      [] l.tag = "move" -> move(b, ds, l)
      [] l.tag = "-sethp" -> sethp(b, l)
      [] l.tag = "-start" -> start_volatile_status(b, l)
      [] l.tag = "-end" -> end_volatile_status(b, l)
      [] l.tag = "-ability" -> update_ability(b, l)
      [] l.tag = "-setboost" -> setboost(b, l)
      [] l.tag = "-boost" -> boost(b, l)
      [] l.tag = "-unboost" -> unboost(b, l)
      [] l.tag = "-status" -> status(b, l)
      [] l.tag = "-activate" -> activate(b, l)
      [] l.tag = "-weather" -> weather(b, l)
      [] l.tag = "-fieldstart" -> fieldstart(b, l)
      [] l.tag = "-fieldend" -> fieldend(b, l)
      [] l.tag = "-sidestart" -> sidestart(b, l)
      [] l.tag = "-sideend" -> sideend(b, l)
      [] l.tag = "-item" -> set_item(b, l)
      [] l.tag = "-enditem" -> remove_item(b, l)
      [] l.tag = "replace" -> illusion_end(b, l)
      [] l.tag = "-zpower" -> zpower(b, l)
      [] l.tag = "upkeep" -> upkeep(b, l)
      [] l.tag = "cant" -> cant(b, l)
      [] l.tag = "turn" -> turn(b, l)
      [] OTHER -> b

Result(b, raised) == [battle |-> b, raised |-> raised]

\* the damage-roll validation of a move line: b is the battle the inference
\* passes of the line have left
validate_damage(b, l, next_messages, check_type) ==
    LET damage_dealt == get_damage_dealt(b, l, next_messages)
    IN Result(b, /\ damage_dealt.found
                 /\ update_dataset_possibilities_raises(b, damage_dealt, check_type))

\* the Hidden Power and Choice Scarf inference of an opponent's move line
\* that has a line after it or is not Hidden Power: b is the battle the
\* handler has left
infer_from_opponent_move(b, msg_lines, i) ==
    check_choicescarf(
        IF normalize_name(msg_lines[i].x) = "hiddenpower"
        THEN check_opponent_hiddenpower(b, msg_lines[i + 1])
        ELSE b,
        msg_lines)

\* msg_lines[i + 1] of a Hidden Power line that is the last one: IndexError
hidden_power_index_error(msg_lines, i) ==
    normalize_name(msg_lines[i].x) = "hiddenpower" /\ i = Len(msg_lines)

\* what the loop does on an opponent's move line after the handler: b is
\* the battle the handler has left
after_opponent_move(b, msg_lines, i) ==
    IF hidden_power_index_error(msg_lines, i)
    THEN Result(b, TRUE)
    ELSE validate_damage(infer_from_opponent_move(b, msg_lines, i),
                         msg_lines[i], SubSeq(msg_lines, i + 1, Len(msg_lines)),
                         "damage_dealt")

\* the inference passes the loop runs on line i after its handler: b is the
\* battle the handler has left
after_handler(b, msg_lines, i) ==
    LET l == msg_lines[i]
        next_messages == SubSeq(msg_lines, i + 1, Len(msg_lines))
    IN IF l.tag = "move" /\ is_opponent(b, l)
       THEN after_opponent_move(b, msg_lines, i)
       ELSE IF l.tag = "move"
       THEN validate_damage(b, l, next_messages, "damage_received")
       ELSE IF l.tag = "switch" /\ is_opponent(b, l)
       THEN Result(check_heavydutyboots(b, next_messages), FALSE)
       ELSE Result(b, FALSE)

\* one iteration of the loop of process_battle_updates, on line i of
\* msg_lines: the battle afterwards, and whether the iteration raised
process_line(b, ds, msg_lines, i) ==
    IF split_len_lt_2(msg_lines[i]) THEN Result(b, FALSE)
    ELSE IF cant_exits(b, msg_lines[i]) THEN Result(cant(b, msg_lines[i]), TRUE)
    ELSE after_handler(
             IF msg_lines[i].tag \in battle_modifiers_lookup
             THEN function_to_call(b, ds, msg_lines[i])
             ELSE b,
             msg_lines, i)

\* the datasets after the damage-roll validation of a move line: b is the
\* battle the inference passes of the line have left
validated_datasets(ds, b, l, next_messages, check_type) ==
    IF get_damage_dealt(b, l, next_messages).found
    THEN update_dataset_possibilities(ds, b, get_damage_dealt(b, l, next_messages),
                                      check_type)
    ELSE ds

\* the datasets after the inference passes of line i: b is the battle the
\* handler has left
datasets_after_handler(ds, b, msg_lines, i) ==
    IF msg_lines[i].tag # "move" THEN ds
    ELSE IF ~is_opponent(b, msg_lines[i])
    THEN validated_datasets(ds, b, msg_lines[i],
                            SubSeq(msg_lines, i + 1, Len(msg_lines)),
                            "damage_received")
    ELSE IF hidden_power_index_error(msg_lines, i) THEN ds
    ELSE validated_datasets(ds, infer_from_opponent_move(b, msg_lines, i),
                            msg_lines[i], SubSeq(msg_lines, i + 1, Len(msg_lines)),
                            "damage_dealt")

\* the datasets of the process after one iteration of the loop
datasets_after_line(b, ds, msg_lines, i) ==
    IF split_len_lt_2(msg_lines[i]) THEN ds
    ELSE datasets_after_handler(ds, function_to_call(b, ds, msg_lines[i]),
                                msg_lines, i)

\* the loop of process_battle_updates from line i on, and
\* battle.msg_list.clear() when it ends
RECURSIVE process_lines(_, _, _)
process_lines(b, ds, i) ==
    IF i > Len(b.msg_list) THEN Result([b EXCEPT !.msg_list = <<>>], FALSE)
    ELSE LET r == process_line(b, ds, b.msg_list, i)
         IN IF r.raised THEN r
            ELSE process_lines(r.battle,
                               datasets_after_line(b, ds, b.msg_list, i), i + 1)

\* the datasets of the process when the loop from line i on has ended
RECURSIVE datasets_after_lines(_, _, _)
datasets_after_lines(b, ds, i) ==
    IF i > Len(b.msg_list) THEN ds
    ELSE LET r == process_line(b, ds, b.msg_list, i)
             ds_after == datasets_after_line(b, ds, b.msg_list, i)
         IN IF r.raised THEN ds_after
            ELSE datasets_after_lines(r.battle, ds_after, i + 1)

process_battle_updates(b, ds) ==
    process_lines(check_speed_ranges(b, b.msg_list), ds, 1)

----------------------------------------------------------------------------
(* update_battle *)

IsRequest(l) == l.tag = "request"

\* index of the first request line of a message, 0 when it has none
RequestIndex(msg) ==
    IF \E i \in 1..Len(msg) : IsRequest(msg[i])
    THEN CHOOSE i \in 1..Len(msg) :
            IsRequest(msg[i]) /\ \A j \in 1..(i - 1) : ~IsRequest(msg[j])
    ELSE 0

\* the lines update_battle appends to battle.msg_list: those before the
\* request line (all of them when there is none) that split in two or more
append_lines(msg) ==
    LET k == RequestIndex(msg)
        upto == IF k = 0 THEN Len(msg) ELSE k - 1
    IN SelectSeq(SubSeq(msg, 1, upto), LAMBDA l : ~split_len_lt_2(l))

\* json.loads of a payload that is not JSON raises JSONDecodeError
request_raises(l) == l.x = "invalid"

\* update_battle up to the call of process_battle_updates
update_battle(b, msg) ==
    LET k == RequestIndex(msg)
        b1 == [b EXCEPT !.msg_list = @ \o append_lines(msg)]
    IN IF k = 0 \/ request_raises(msg[k]) THEN b1 ELSE request(b1, msg[k])
----------------------------------------------------------------------------
(* fp/search/main.py: the search driver before its first call *)

NoSearch == [pc |-> "idle", futures |-> <<>>, expired |-> FALSE, choice |-> None]

\* fp_mcp/battle_session.py: BattleSession.__init__, with the position of
\* run_llm_battle_loop, what the loop has sent for the request it is at,
\* and how the last submit_decision call ended. requests counts the
\* requests and is the rqid of the last one; last_sent_rqid is -1 for None;
\* queue_rqids and decision_rqid hold the rqid at which each queued
\* decision and the decision taken from the queue were submitted, and
\* answers, for every decision sent, that rqid and the rqid it was sent for
NoSession ==
    [status |-> "initializing", awaiting_decision |-> FALSE,
     error_message |-> None, decision_queue |-> <<>>, loop |-> "start",
     decision |-> None, sent |-> <<>>, requests |-> 0, submitted |-> "",
     last_sent_rqid |-> -1, queue_rqids |-> <<>>, decision_rqid |-> -1,
     answers |-> <<>>]

----------------------------------------------------------------------------
(* The battle loop of run_battle.py, one step per action *)

Msgs(alphabet) == UNION {[1..k -> alphabet] : k \in 1..MaxMsgLen}

\* the messages whose request line, if they have one, is their last line:
\* the lines of a turn, which the server ends with the request
TurnMsgs(alphabet) ==
    {msg \in Msgs(alphabet) :
        \A k \in 1..Len(msg) : msg[k].tag = "request" => k = Len(msg)}

\* the server lays at most MaxLayers layers of an entry hazard on a side
layers_in_bounds(b) ==
    \A sk \in {"user", "opponent"} : \A c \in SideConditions \ {"tailwind"} :
        b[sk].side_conditions[c]
          + Len(SelectSeq(b.msg_list,
                          LAMBDA l : /\ l.tag = "-sidestart"
                                     /\ l.who = b[sk].name
                                     /\ side_condition_of(l.x) = c))
          <= MaxLayers

\* the Pokemon of a side: the active one and those of the reserve
PokemonOf(side) == {side.active} \cup {side.reserve[i] : i \in 1..Len(side.reserve)}

\* the server wakes a Pokemon that has been asleep MaxSleepTurns turns
sleep_in_bounds(b) ==
    \A sk \in {"user", "opponent"} : \A p \in PokemonOf(b[sk]) :
        p.sleep_turns
          + Len(SelectSeq(b.msg_list,
                          LAMBDA l : /\ l.tag = "cant"
                                     /\ l.who = b[sk].name
                                     /\ l.x = "slp"))
          <= MaxSleepTurns

\* the moves the bot's active Pokemon can select
BotMoves == {"tackle", "quickattack"}

\* a server message arrives and update_battle is called on it
Update(msgs) ==
    /\ pc = "idle"
    /\ \E msg \in msgs :
          /\ Len(battle.msg_list) + Len(append_lines(msg)) <= MaxBuf
          /\ layers_in_bounds(update_battle(battle, msg))
          /\ sleep_in_bounds(update_battle(battle, msg))
          /\ battle' = update_battle(battle, msg)
          /\ IF RequestIndex(msg) = 0
             THEN pc' = "idle" /\ lastMsg' = <<>>
             ELSE /\ pc' = IF request_raises(msg[RequestIndex(msg)])
                           THEN "raised" ELSE "speed"
                  /\ lastMsg' = msg
    /\ dispatched' = <<>>
    /\ ret' = FALSE
    /\ idx' = 0
    /\ UNCHANGED <<datasets, sent, consecutive_errors, search, session>>

\* process_battle_updates starts: check_speed_ranges(battle, msg_lines)
CheckSpeedRanges ==
    /\ pc = "speed"
    /\ battle' = check_speed_ranges(battle, battle.msg_list)
    /\ pc' = "lines"
    /\ idx' = 1
    /\ UNCHANGED <<datasets, lastMsg, dispatched, ret, sent, consecutive_errors, search, session>>

\* one iteration of the loop of process_battle_updates; an iteration that
\* raises ends the coroutine of the battle, and exit(1) ends the process
HandleLine ==
    /\ pc = "lines"
    /\ idx <= Len(battle.msg_list)
    /\ LET r == process_line(battle, datasets, battle.msg_list, idx)
       IN /\ battle' = r.battle
          /\ pc' = IF cant_exits(battle, battle.msg_list[idx]) THEN "exit"
                   ELSE IF r.raised THEN "raised" ELSE "lines"
    /\ dispatched' = IF battle.msg_list[idx].tag \in battle_modifiers_lookup
                     THEN Append(dispatched, battle.msg_list[idx])
                     ELSE dispatched
    /\ datasets' = datasets_after_line(battle, datasets, battle.msg_list, idx)
    /\ idx' = idx + 1
    /\ UNCHANGED <<lastMsg, ret, sent, consecutive_errors, search, session>>

\* process_battle_updates returning without battle.msg_list.clear()
FinishNoClear ==
    /\ pc = "lines"
    /\ idx > Len(battle.msg_list)
    /\ ret' = ~battle.wait
    /\ pc' = IF battle.wait THEN "idle" ELSE "pick"
    /\ idx' = 0
    /\ lastMsg' = <<>>
    /\ dispatched' = <<>>
    /\ UNCHANGED <<battle, datasets, sent, consecutive_errors, search, session>>

\* battle.msg_list.clear() and update_battle returns not battle.wait; the
\* caller picks a move when it returned True
Finish ==
    /\ pc = "lines"
    /\ idx > Len(battle.msg_list)
    /\ battle' = [battle EXCEPT !.msg_list = <<>>]
    /\ ret' = ~battle.wait
    /\ pc' = IF battle.wait THEN "idle" ELSE "pick"
    /\ idx' = 0
    /\ lastMsg' = <<>>
    /\ dispatched' = <<>>
    /\ UNCHANGED <<datasets, sent, consecutive_errors, search, session>>

\* a move picked while process_battle_updates is still in its loop
PickMoveInLoop ==
    /\ pc \in {"pick", "lines"}
    /\ \E mv \in BotMoves :
          /\ battle' = [battle EXCEPT !.user.last_selected_move =
                           LastUsedMove(battle.user.active.name, mv, battle.turn)]
          /\ sent' = mv
    /\ pc' = "idle"
    /\ ret' = FALSE
    /\ UNCHANGED <<datasets, idx, lastMsg, dispatched, consecutive_errors, search, session>>

\* async_pick_move: the chosen move is remembered as last_selected_move,
\* and the caller sends it to the server
PickMove ==
    /\ pc = "pick"
    /\ \E mv \in BotMoves :
          /\ battle' = [battle EXCEPT !.user.last_selected_move =
                           LastUsedMove(battle.user.active.name, mv, battle.turn)]
          /\ sent' = mv
    /\ pc' = "idle"
    /\ ret' = FALSE
    /\ UNCHANGED <<datasets, idx, lastMsg, dispatched, consecutive_errors, search, session>>

Step(msgs) ==
    Update(msgs) \/ CheckSpeedRanges \/ HandleLine \/ Finish \/ PickMove

\* the candidate sets the datasets hold when the battle starts: the sets
\* of the team datasets, and the sets the usage statistics give
InitialDatasets ==
    LET gliscor == <<PredictedPokemonSet("poisonheal", "toxicorb",
                         {"tackle", "swordsdance"}, <<20, 90>>, <<60, 90>>),
                     PredictedPokemonSet("sandveil", "choiceband",
                         {"tackle", "quickattack"}, <<40, 30>>, <<20, 40>>),
                     PredictedPokemonSet("hypercutter", "leftovers",
                         {"tackle", "hiddenpower"}, <<60, 70>>, <<80, 20>>),
                     PredictedPokemonSet("poisonheal", "lifeorb",
                         {"tackle", "quickattack"}, <<80, 50>>, <<40, 60>>)>>
        zoroark == <<PredictedPokemonSet("illusion", "lifeorb",
                         {"nightdaze", "swordsdance"}, <<30, 45>>, <<70, 80>>),
                     PredictedPokemonSet("illusion", "choicespecs",
                         {"nightdaze", "tackle"}, <<70, 105>>, <<30, 60>>)>>
        sets == [p \in {"gliscor", "zoroark"} |->
                    IF p = "gliscor" THEN gliscor ELSE zoroark]
        statistics == [p \in {"gliscor", "zoroark"} |->
                          IF p = "gliscor"
                          THEN <<gliscor[4], gliscor[2], gliscor[1],
                                 PredictedPokemonSet("sandveil", "leftovers",
                                     {"tackle", "swordsdance"}, <<50, 60>>, <<50, 70>>)>>
                          ELSE zoroark]
    IN [random |-> sets, team |-> sets, smogon |-> statistics]

\* the battle when the first request has been answered: the leads are out
\* and the bot is choosing its first move
InitBattle(generation, battle_type) ==
    /\ battle = NewBattle(generation, battle_type)
    /\ datasets = InitialDatasets
    /\ pc = "pick"
    /\ idx = 0
    /\ lastMsg = <<>>
    /\ dispatched = <<>>
    /\ ret = TRUE
    /\ sent = ""
    /\ consecutive_errors = 0
    /\ search = NoSearch
    /\ session = NoSession

Init == InitBattle("gen9", "STANDARD_BATTLE")

----------------------------------------------------------------------------
(* Lines of the protocol the specifications draw their messages from *)

RequestMove == Line("request", "", "move", 1, "", "")
RequestWait == Line("request", "", "wait", 1, "", "")
RequestForceSwitch == Line("request", "", "forceSwitch", 1, "", "")

HintLine == Line("-hint", "", "", 0, "", "")

\* "|move|p2a: Gliscor|Tackle|p1a: Jolteon"
MoveLine(who, mv) == Line("move", who, mv, 0, "", "")

----------------------------------------------------------------------------
(* The message buffer: any mix of handled, unhandled and room lines *)

BufferAlphabet ==
    {RequestMove, RequestWait, RoomLine, HintLine,
     Line("-boost", OpponentName, "attack", 6, "", ""),
     Line("-unboost", OpponentName, "speed", 6, "", "")}

Next == Step(Msgs(BufferAlphabet))

Spec == Init /\ [][Next]_vars

----------------------------------------------------------------------------
(* Stat boosts *)

BoostLines ==
    {Line("-boost", OpponentName, "attack", 2, "", ""),
     Line("-unboost", OpponentName, "attack", 1, "", ""),
     Line("-setboost", OpponentName, "attack", 12, "[from] ability: Anger Point", ""),
     Line("-setboost", OpponentName, "attack", 6, "[from] move: Belly Drum", "")}

BoostAlphabet == BoostLines \cup {RequestMove}

NextBoost == Step(Msgs(BoostAlphabet))

SpecBoost == Init /\ [][NextBoost]_vars

----------------------------------------------------------------------------
(* Properties of the message buffer *)

KnownTag(l) == l.tag \in battle_modifiers_lookup

IsSuffix(s, t) ==
    /\ Len(s) <= Len(t)
    /\ SubSeq(t, Len(t) - Len(s) + 1, Len(t)) = s

IsPrefix(s, t) ==
    /\ Len(s) <= Len(t)
    /\ SubSeq(t, 1, Len(s)) = s

\* the lines of a message that have a handler, the request line left out
HandlerLines(msg) ==
    LET k == RequestIndex(msg)
        rest == SubSeq(msg, 1, k - 1) \o SubSeq(msg, k + 1, Len(msg))
    IN SelectSeq(rest, LAMBDA l : ~split_len_lt_2(l) /\ KnownTag(l))

\* C1: when update_battle returns True for a message, the handlers of all
\* the lines of that message have run, in message-line order, the lines
\* after the request line included.
C1_AllLinesHandled ==
    [][(pc = "lines" /\ pc' = "pick" /\ ret')
          => IsSuffix(HandlerLines(lastMsg), dispatched)]_vars

\* C2: a message without a request line only extends battle.msg_list; a
\* request line starts no handler before the buffer is complete; when
\* process_battle_updates ends, the handlers were called for exactly the
\* buffered lines that have one, once each and in arrival order, and the
\* buffer is empty afterwards.
C2_BufferDiscipline ==
    [][/\ (pc = "idle" /\ pc' = "idle")
            => /\ [battle' EXCEPT !.msg_list = battle.msg_list] = battle
               /\ IsPrefix(battle.msg_list, battle'.msg_list)
               /\ dispatched' = <<>>
       /\ (pc = "idle" /\ pc' = "speed")
            => /\ [battle' EXCEPT !.msg_list = battle.msg_list,
                                  !.rqid = battle.rqid,
                                  !.force_switch = battle.force_switch,
                                  !.wait = battle.wait] = battle
               /\ IsPrefix(battle.msg_list, battle'.msg_list)
               /\ dispatched' = <<>>
       /\ (pc = "lines" /\ pc' \notin {"lines", "raised"})
            => /\ dispatched = SelectSeq(battle.msg_list, KnownTag)
               /\ battle'.msg_list = <<>>]_vars

C2_Witness ==
    /\ pc = "lines"
    /\ idx > Len(battle.msg_list)
    /\ Len(dispatched) >= 2
    /\ Len(battle.msg_list) > Len(dispatched)

----------------------------------------------------------------------------
(* Properties of the Pokemon of a side *)

\* C3: every stat boost of every Pokemon lies in [-6, 6].
C3_BoostsInRange ==
    \A sk \in {"user", "opponent"} :
        \A p \in PokemonOf(battle[sk]) :
            \A s \in Stats :
                /\ p.boosts[s] >= -1 * MAX_BOOSTS
                /\ p.boosts[s] <= MAX_BOOSTS

----------------------------------------------------------------------------
(* Speed bounds: turns in which both sides move, the bot's speed drops      *)

SpeedAlphabet ==
    {RequestMove,
     MoveLine(OpponentName, "Tackle"),
     MoveLine(UserName, "Tackle"),
     Line("-unboost", UserName, "speed", 6, "", "")}

NextSpeed == Step(TurnMsgs(SpeedAlphabet))

SpecSpeed == Init /\ [][NextSpeed]_vars

\* C4: the speed range of the opponent's active Pokemon has min <= max and
\* both bounds non-negative.
C4_SpeedRangeOrdered ==
    LET r == battle.opponent.active.speed_range
    IN r.min <= r.max /\ r.min >= 0 /\ r.max >= 0

\* the bounds of every speed range stay non-negative
SpeedRangeNonNegative ==
    \A p \in PokemonOf(battle.opponent) : p.speed_range.min >= 0 /\ p.speed_range.max >= 0

----------------------------------------------------------------------------
(* Items: the opponent's Pokemon move, and reveal an item *)

ItemAlphabet ==
    {RequestMove,
     MoveLine(OpponentName, "Tackle"),
     Line("upkeep", "", "", 0, "", ""),
     Line("-damage", OpponentName, "", 90, "[from] item: Life Orb", "")}

NextItem == Step(TurnMsgs(ItemAlphabet))

SpecItem == Init /\ [][NextItem]_vars

\* the opponent moves before the bot with one move or another, and its
\* active Pokemon turns out to be its Zoroark
ChoiceAlphabet ==
    {RequestMove,
     MoveLine(OpponentName, "Tackle"),
     MoveLine(OpponentName, "Quick Attack"),
     Line("replace", OpponentName, "Zoroark", 100, "", "")}

NextChoice == Step(TurnMsgs(ChoiceAlphabet))

SpecChoice == Init /\ [][NextChoice]_vars

\* the line the loop of process_battle_updates is handling
CurrentLine == battle.msg_list[idx]

\* a step of the loop of process_battle_updates is being taken
HandlingLine == pc = "lines" /\ idx <= Len(battle.msg_list) /\ idx' = idx + 1

\* C5: an item of an opponent's Pokemon that is known (not UNKNOWN) is not
\* in the impossible_items of that Pokemon.
C5_ItemNotImpossible ==
    \A p \in PokemonOf(battle.opponent) :
        p.item # UNKNOWN_ITEM => p.item \notin p.impossible_items

\* an opponent's Pokemon whose item was known has an UNKNOWN item after the
\* step, the Pokemon a switch has newly created left aside
ItemReset(p, q) ==
    /\ p.name = q.name
    /\ p.item # UNKNOWN_ITEM
    /\ q.item = UNKNOWN_ITEM
    /\ ~(/\ HandlingLine
         /\ CurrentLine.tag \in {"switch", "drag"}
         /\ is_opponent(battle, CurrentLine)
         /\ normalize_name(CurrentLine.x) = q.name
         /\ find_pokemon_in_reserves(battle.opponent, q.name) = 0)

BreaksInferredChoiceLock ==
    /\ HandlingLine
    /\ CurrentLine.tag = "move"
    /\ is_opponent(battle, CurrentLine)
    /\ CurrentLine.ann = ""
    /\ normalize_name(CurrentLine.x) # "struggle"
    /\ battle.opponent.active.item \in CHOICE_ITEMS
    /\ battle.opponent.active.item_inferred
    /\ battle.opponent.last_used_move.pokemon_name = battle.opponent.active.name
    /\ battle.opponent.last_used_move.move # normalize_name(CurrentLine.x)
    /\ battle'.opponent.active.name = battle.opponent.active.name

\* C7: when the opponent's active Pokemon holds a choice item set by
\* inference and uses a move other than its last one without having
\* switched, its item is UNKNOWN and can_have_choice_item false afterwards.
C7_ChoiceLockViolationResetsItem ==
    [][BreaksInferredChoiceLock =>
          /\ battle'.opponent.active.item = UNKNOWN_ITEM
          /\ ~battle'.opponent.active.can_have_choice_item]_vars

\* the loop has just handled the second, different move of an opponent's
\* Pokemon whose choice item was inferred
C7_Witness ==
    /\ pc = "lines"
    /\ idx > 1
    /\ battle.msg_list[idx - 1] = MoveLine(OpponentName, "Quick Attack")
    /\ battle.opponent.active.item_inferred
    /\ battle.opponent.active.item = UNKNOWN_ITEM
    /\ ~battle.opponent.active.can_have_choice_item
    /\ "tackle" \in battle.opponent.active.moves_used_since_switch_in

----------------------------------------------------------------------------
(* Zoroark: the opponent's active Pokemon is damaged, uses a move only the  *)
(* Zoroark of its team has, and its illusion ends                           *)

ZoroarkAlphabet ==
    {RequestMove,
     Line("-damage", OpponentName, "", 50, "", ""),
     MoveLine(OpponentName, "Night Daze"),
     Line("replace", OpponentName, "Zoroark", 100, "", "")}

NextZoroark == Step(TurnMsgs(ZoroarkAlphabet))

SpecZoroark == Init /\ [][NextZoroark]_vars

\* C8: when a replace line ends the disguise of an opponent's Zoroark that
\* a move had given away, the Pokemon it was disguised as has the HP and
\* the status it had at its switch-in.
C8_RollbackRestoresSwitchInValues ==
    [][(/\ HandlingLine
        /\ CurrentLine.tag = "replace"
        /\ is_opponent(battle, CurrentLine)
        /\ battle.opponent.active.zoroark_disguised_as # None)
          => \A q \in PokemonOf(battle'.opponent) :
                q.name = battle.opponent.active.zoroark_disguised_as
                   => /\ q.hp = q.hp_at_switch_in
                      /\ q.status = q.status_at_switch_in]_vars

----------------------------------------------------------------------------
(* Damage-roll validation of the candidate sets of the opponent's active    *)
(* Pokemon, in each type of battle                                          *)

SwitchLine(who, species, hp) == Line("switch", who, species, hp, "", "")

\* the damage of a move, in percent, a validation pass is given
DamagePercents == {10, 20, 30, 40, 50, 60, 70, 80, 90}

\* the _do_check calls of update_dataset_possibilities on the lists its
\* lookups name, for a damaging move that did percent_damage
DamagePass ==
    /\ pc = "pick"
    /\ \E check_type \in {"damage_dealt", "damage_received"} :
       \E percent_damage \in DamagePercents :
       \E crit \in BOOLEAN :
          datasets' = do_checks(datasets, battle,
                                DamageDealt("tackle", percent_damage, crit),
                                check_type, dataset_checks(battle.battle_type))
    /\ UNCHANGED <<battle, pc, idx, lastMsg, dispatched, ret, sent,
                    consecutive_errors, search, session>>

\* the opponent switches between its two Pokemon
DamageAlphabet ==
    {RequestMove,
     SwitchLine(OpponentName, "Zoroark", 100),
     SwitchLine(OpponentName, "Gliscor", 100)}

NextDamage == Step(TurnMsgs(DamageAlphabet)) \/ DamagePass

\* a battle of any type
InitDamage == \E battle_type \in BattleTypes : InitBattle("gen9", battle_type)

SpecDamage == InitDamage /\ [][NextDamage]_vars

DatasetNames == {"random", "team", "smogon"}

----------------------------------------------------------------------------
(* Lines without a handler: the opponent uses Hidden Power, the server     *)
(* tells how effective it was and what damage it did, and sends a hint     *)

UnknownAlphabet ==
    {RequestMove,
     HintLine,
     MoveLine(OpponentName, "Hidden Power"),
     Line("-supereffective", UserName, "", 0, "", ""),
     Line("-miss", OpponentName, "", 0, "", ""),
     Line("-damage", UserName, "", 50, "", "")}

NextUnknown == Step(TurnMsgs(UnknownAlphabet))

SpecUnknown == Init /\ [][NextUnknown]_vars

\* the lines of a buffer at the indexes keep holds of
KeepLines(msg_lines, keep(_)) ==
    LET kept == {i \in 1..Len(msg_lines) : keep(i)}
        RECURSIVE pick(_)
        pick(i) == IF i > Len(msg_lines) THEN <<>>
                   ELSE IF i \in kept THEN <<msg_lines[i]>> \o pick(i + 1)
                   ELSE pick(i + 1)
    IN pick(1)

\* what process_battle_updates makes of the battle with the buffer
\* msg_lines: the battle, the buffer left aside, and whether it raised
Outcome(msg_lines) ==
    LET r == process_battle_updates([battle EXCEPT !.msg_list = msg_lines], datasets)
    IN [r EXCEPT !.battle.msg_list = <<>>]

\* line i of the buffer is one no inference pass reads: its tag has no
\* handler and is not "-crit", "-miss" or empty, it names neither Quick Claw
\* nor Quick Draw, and it does not directly follow a Hidden Power move of
\* the opponent
UnreadLine(msg_lines, i) ==
    /\ ~KnownTag(msg_lines[i])
    /\ msg_lines[i].tag \notin {"-crit", "-miss", ""}
    /\ ~MentionsQuickClaw(msg_lines[i])
    /\ ~MentionsQuickDraw(msg_lines[i])
    /\ ~(/\ i > 1
         /\ msg_lines[i - 1].tag = "move"
         /\ is_opponent(battle, msg_lines[i - 1])
         /\ normalize_name(msg_lines[i - 1].x) = "hiddenpower")

\* C10 as stated: processing the buffer gives the battle that processing it
\* without its lines of unknown tag gives.
C10_UnknownTagsAreNoOps ==
    pc = "speed" =>
        Outcome(battle.msg_list)
            = Outcome(KeepLines(battle.msg_list,
                                LAMBDA i : KnownTag(battle.msg_list[i])))

\* C10: processing the buffer gives the battle that processing it without
\* the lines of unknown tag that no inference pass reads gives.
C10_UnreadLinesAreNoOps ==
    pc = "speed" =>
        Outcome(battle.msg_list)
            = Outcome(KeepLines(battle.msg_list,
                                LAMBDA i : ~UnreadLine(battle.msg_list, i)))

\* a complete buffer that ends with a hint, after the opponent's move and
\* its damage
C10_Witness ==
    /\ pc = "speed"
    /\ battle.msg_list = <<MoveLine(OpponentName, "Hidden Power"),
                           Line("-damage", UserName, "", 50, "", ""),
                           HintLine>>
    /\ battle.opponent.active.hidden_power_possibilities = HiddenPowerTypes

----------------------------------------------------------------------------
(* Replaying a log: the opponent attacks, the bot's Pokemon takes damage,  *)
(* and the opponent uses a move of the Zoroark of its reserve              *)

ReplayAlphabet ==
    {RequestMove,
     MoveLine(OpponentName, "Tackle"),
     Line("-damage", UserName, "", 10, "", ""),
     MoveLine(OpponentName, "Night Daze")}

NextReplay == Step(TurnMsgs(ReplayAlphabet))

SpecReplay == Init /\ [][NextReplay]_vars

\* a fresh battle object of the format of the current one, holding the
\* lines of a log; the move the bot selected, which is no part of the log,
\* is the one it has selected now
FreshBattle(log) ==
    [NewBattle(battle.generation, battle.battle_type)
        EXCEPT !.msg_list = log,
               !.user.last_selected_move = battle.user.last_selected_move]

\* process_battle_updates on a fresh battle holding the log, with the
\* datasets of the process being ds: the battle it leaves, whether it
\* raised, and the datasets of the process afterwards
Replay(log, ds) ==
    [result |-> process_battle_updates(FreshBattle(log), ds),
     datasets |-> datasets_after_lines(
                      check_speed_ranges(FreshBattle(log), log), ds, 1)]

----------------------------------------------------------------------------
(* Switches: the opponent's Pokemon enters, is found to be a Zoroark by a   *)
(* move, or has its illusion ended                                          *)

SwitchAlphabet ==
    {RequestMove,
     SwitchLine(OpponentName, "Gliscor", 100),
     MoveLine(OpponentName, "Night Daze"),
     Line("replace", OpponentName, "Zoroark", 100, "", "")}

NextSwitch == Step(TurnMsgs(SwitchAlphabet))

SpecSwitch == Init /\ [][NextSwitch]_vars

\* the number of entries of the reserve of a side that are of a species
OccurrencesInReserve(side, nm) ==
    Cardinality({k \in 1..Len(side.reserve) : side.reserve[k].name = nm})

\* the step handles a switch, drag or replace line, or a move line that
\* swaps the active Pokemon with the Zoroark of the reserve
ActiveEvent ==
    /\ HandlingLine
    /\ \/ CurrentLine.tag \in {"switch", "drag", "replace"}
       \/ /\ CurrentLine.tag = "move"
          /\ battle'[SideKey(battle, CurrentLine)].active.name
                 # battle[SideKey(battle, CurrentLine)].active.name

\* C12 as stated: after every switch, drag, disguise swap and replace
\* event the active Pokemon of the side is not in its reserve and the
\* Pokemon that was active before the event is in the reserve exactly once.
C12_PreviousActiveInReserveOnce ==
    [][ActiveEvent =>
          /\ OccurrencesInReserve(battle'[SideKey(battle, CurrentLine)],
                 battle'[SideKey(battle, CurrentLine)].active.name) = 0
          /\ OccurrencesInReserve(battle'[SideKey(battle, CurrentLine)],
                 battle[SideKey(battle, CurrentLine)].active.name) = 1]_vars

\* C12: after every switch, drag, disguise swap and replace event the
\* active Pokemon of the side is not in its reserve, and when the event
\* has changed the active species the Pokemon that was active before it is
\* in the reserve exactly once; an event that leaves the active species as
\* it was (a switch to the species already active, a replace line after a
\* move had given the Zoroark away) adds nothing to the reserve.
C12_ActiveNotInReserveAndOutgoingOnce ==
    [][ActiveEvent =>
          /\ OccurrencesInReserve(battle'[SideKey(battle, CurrentLine)],
                 battle'[SideKey(battle, CurrentLine)].active.name) = 0
          /\ IF battle'[SideKey(battle, CurrentLine)].active.name
                    # battle[SideKey(battle, CurrentLine)].active.name
             THEN OccurrencesInReserve(battle'[SideKey(battle, CurrentLine)],
                      battle[SideKey(battle, CurrentLine)].active.name) = 1
             ELSE battle'[SideKey(battle, CurrentLine)].reserve
                      = battle[SideKey(battle, CurrentLine)].reserve]_vars

\* a move has given the Zoroark away and the Pokemon it was disguised as
\* has then switched in: the Zoroark is in the reserve, once
C12_Witness ==
    /\ pc = "lines"
    /\ idx = 3
    /\ battle.msg_list[1] = MoveLine(OpponentName, "Night Daze")
    /\ battle.msg_list[2] = SwitchLine(OpponentName, "Gliscor", 100)
    /\ battle.opponent.active.name = "gliscor"
    /\ OccurrencesInReserve(battle.opponent, "zoroark") = 1
    /\ Len(battle.opponent.reserve) = 1
----------------------------------------------------------------------------
(* Hit points: damage, healing, fainting, Dynamax, Regenerator and the      *)
(* Zoroark swap, one line a turn                                            *)

\* the highest max_hp a Pokemon that starts Dynamax reaches
MaxDynamaxHp == 400

\* the turns of a battle
MaxTurns == 4

HpLines ==
    {Line("-damage", OpponentName, "", 50, "", ""),
     Line("-heal", OpponentName, "", 100, "", ""),
     Line("-sethp", OpponentName, "", 30, "", ""),
     Line("faint", OpponentName, "", 0, "", ""),
     Line("-start", OpponentName, "Dynamax", 0, "", ""),
     Line("-end", OpponentName, "Dynamax", 0, "", ""),
     Line("-ability", OpponentName, "Regenerator", 0, "", ""),
     SwitchLine(OpponentName, "Gliscor", 50),
     SwitchLine(OpponentName, "Zoroark", 100),
     MoveLine(OpponentName, "Night Daze"),
     Line("replace", OpponentName, "Zoroark", 100, "", ""),
     ConditionLine("-damage", UserName, 48, 100),
     ConditionLine("-sethp", UserName, 26, 100),
     Line("-start", UserName, "Dynamax", 0, "", ""),
     Line("-end", UserName, "Dynamax", 0, "", "")}

\* the server starts Dynamax on a Pokemon of at most MaxDynamaxHp / 2
\* max_hp, and ends the Dynamax of a Pokemon whose hp and max_hp are even
dynamax_in_bounds(b, l) ==
    /\ (l.tag = "-start" /\ l.x = "Dynamax")
          => 2 * b[SideKey(b, l)].active.max_hp <= MaxDynamaxHp
    /\ (l.tag = "-end" /\ l.x = "Dynamax")
          => /\ b[SideKey(b, l)].active.hp % 2 = 0
             /\ b[SideKey(b, l)].active.max_hp % 2 = 0

\* a turn of one line, which the server ends with the number of the next
\* turn and the request
HpMsgs ==
    {<<l, Line("turn", "", "", battle.turn + 1, "", ""), RequestMove>> :
        l \in {h \in HpLines : battle.turn < MaxTurns /\ dynamax_in_bounds(battle, h)}}

NextHp == Step(HpMsgs)

SpecHp == Init /\ [][NextHp]_vars

\* C13: every Pokemon of both sides has 0 <= hp <= max_hp, after every
\* handled line: damage, heal, sethp, faint, the Regenerator healing of a
\* switch-out, the start and the end of Dynamax, the Zoroark swap and the
\* end of the illusion.
C13_HpInRange ==
    \A sk \in {"user", "opponent"} :
        \A p \in PokemonOf(battle[sk]) : 0 <= p.hp /\ p.hp <= p.max_hp

\* Regenerator has healed the Gliscor that went out at half of its hit
\* points, and the Zoroark that came in has started Dynamax
C13_Witness ==
    /\ \E k \in 1..Len(battle.opponent.reserve) :
          /\ battle.opponent.reserve[k].name = "gliscor"
          /\ battle.opponent.reserve[k].hp = 83
    /\ battle.opponent.active.name = "zoroark"
    /\ "dynamax" \in battle.opponent.active.volatile_statuses
    /\ battle.opponent.active.max_hp = 400
----------------------------------------------------------------------------
(* Weather: rain starts, is counted down at the end of each turn, and ends  *)

WeatherAlphabet ==
    {RequestMove,
     Line("-weather", "", "RainDance", 0, "[from] ability: Drizzle", OpponentName),
     Line("-weather", "", "RainDance", 0, "[upkeep]", ""),
     Line("-weather", "", "none", 0, "", "")}

NextWeather == Step(TurnMsgs(WeatherAlphabet))

SpecWeather == Init /\ [][NextWeather]_vars

\* C14: an upkeep weather line that takes the countdown from one to zero
\* leaves the weather of the line active with three turns remaining, and
\* no step other than the handling of a "-weather|none" line takes an
\* active weather away.
C14_CountdownExtendsWeather ==
    [][/\ (/\ HandlingLine
           /\ CurrentLine.tag = "-weather"
           /\ LastPart(CurrentLine) = "[upkeep]"
           /\ battle.weather_turns_remaining = 1)
          => /\ battle'.weather = normalize_name(CurrentLine.x)
             /\ battle'.weather = battle.weather
             /\ battle'.weather_turns_remaining = 3
       /\ (battle.weather \notin {None, "none"} /\ battle'.weather # battle.weather)
          => /\ HandlingLine
             /\ CurrentLine.tag = "-weather"
             /\ normalize_name(CurrentLine.x) = battle'.weather]_vars

\* the rain of the opponent's Drizzle has outlasted its five turns: three
\* turns are left and the opponent's Pokemon is given the Damp Rock
C14_Witness ==
    /\ battle.weather = "raindance"
    /\ battle.weather_turns_remaining = 3
    /\ battle.weather_source = "opponent:gliscor"
    /\ battle.opponent.active.item = "damprock"
    /\ pc = "lines"
    /\ idx > 1
    /\ LastPart(battle.msg_list[idx - 1]) = "[upkeep]"
----------------------------------------------------------------------------
(* The battle loop of run_foul_play: a battle that raises is given up and   *)
(* the next one starts                                                      *)

max_consecutive_errors == 10

\* "except Exception" of run_foul_play: the error is counted and logged,
\* and the loop goes on to the next battle or, after
\* max_consecutive_errors of them, ends; nothing is sent for the battle
\* that raised
BattleError ==
    /\ pc = "raised"
    /\ consecutive_errors' = consecutive_errors + 1
    /\ IF consecutive_errors + 1 >= max_consecutive_errors
       THEN pc' = "stopped" /\ UNCHANGED battle
       ELSE /\ pc' = "pick"
            /\ battle' = NewBattle(battle.generation, battle.battle_type)
    /\ idx' = 0
    /\ lastMsg' = <<>>
    /\ dispatched' = <<>>
    /\ ret' = FALSE
    /\ UNCHANGED <<datasets, sent, search, session>>

\* a request whose payload is not JSON
RequestInvalid == Line("request", "", "invalid", 0, "", "")

ProcessAlphabet ==
    {RequestMove, RequestInvalid,
     Line("-status", OpponentName, "slp", 0, "[from] move: Rest", ""),
     Line("cant", OpponentName, "slp", 0, "", "")}

NextProcess == Step(TurnMsgs(ProcessAlphabet)) \/ BattleError

SpecProcess == Init /\ [][NextProcess]_vars

\* C15: no line makes the interpreter end the process.
C15_InterpreterNeverExits == pc # "exit"

\* C16: when update_battle has raised on a request whose payload is not
\* JSON, the next thing the battle loop does is send "/forfeit".
C16_InvalidRequestForfeits ==
    [][(/\ pc = "raised"
        /\ lastMsg # <<>>
        /\ request_raises(lastMsg[RequestIndex(lastMsg)])
        /\ pc' # pc)
          => sent' = "/forfeit"]_vars
----------------------------------------------------------------------------
(* Zoroark resolution when the opponent's reserve holds no Zoroark, in each *)
(* type of battle                                                           *)

\* the Pokemon of the reserve a disguise swap can resolve to
ZoroarkCandidates(side) ==
    {k \in 1..Len(side.reserve) : side.reserve[k].name \in {"zoroark", "zoroarkhisui"}}

ReserveNames(side) == [k \in 1..Len(side.reserve) |-> side.reserve[k].name]

AmbiguousAlphabet ==
    {RequestMove,
     MoveLine(OpponentName, "Night Daze"),
     MoveLine(OpponentName, "Tackle")}

NextAmbiguous == Step(TurnMsgs(AmbiguousAlphabet))

\* a battle of any type in which the opponent has shown its lead only, or
\* its lead and a Zoroark
InitAmbiguous ==
    \E battle_type \in BattleTypes :
    \E reserve \in {<<>>, <<NewPokemon("zoroark")>>} :
        /\ battle = [NewBattle("gen9", battle_type) EXCEPT !.opponent.reserve = reserve]
        /\ datasets = InitialDatasets
        /\ pc = "pick"
        /\ idx = 0
        /\ lastMsg = <<>>
        /\ dispatched = <<>>
        /\ ret = TRUE
        /\ sent = ""
        /\ consecutive_errors = 0
        /\ search = NoSearch
        /\ session = NoSession

SpecAmbiguous == InitAmbiguous /\ [][NextAmbiguous]_vars

\* C17: a move of the opponent's active Pokemon while its reserve does not
\* hold exactly one Zoroark leaves the active Pokemon and the reserve as
\* they are: no disguise swap is made.
C17_AmbiguousResolutionSkipsSwap ==
    [][(/\ HandlingLine
        /\ CurrentLine.tag = "move"
        /\ is_opponent(battle, CurrentLine)
        /\ Cardinality(ZoroarkCandidates(battle.opponent)) # 1)
          => /\ battle'.opponent.active.name = battle.opponent.active.name
             /\ ReserveNames(battle'.opponent) = ReserveNames(battle.opponent)]_vars
----------------------------------------------------------------------------
(* fp/search/main.py: find_best_move samples battles, runs one rollout      *)
(* worker on each and aggregates what they return                           *)

\* battles sampled by one call, visits of one option in one result
MaxSamples == 2
MaxVisits == 2

\* sample_chance of a sampled battle, in units of one common denominator
Chances == {1, 2}

RECURSIVE SumVisits(_, _)
SumVisits(r, S) ==
    IF S = {} THEN 0
    ELSE LET m == CHOOSE x \in S : TRUE
         IN r[m] + SumVisits(r, S \ {m})

\* MctsResult.total_visits: the iterations of the search, one visit of an
\* option of side_one each
total_visits(r) == SumVisits(r, DOMAIN r)

\* what a worker can return: the visits of every option of side_one
MctsResults == {r \in [BotMoves -> 0..MaxVisits] : total_visits(r) >= 1}

NoResult == [m \in BotMoves |-> 0]

RECURSIVE TotalsProduct(_, _)
\* the product of the total_visits of the results other than the i-th
TotalsProduct(mcts_results, skip) ==
    IF mcts_results = <<>> THEN 1
    ELSE (IF Len(mcts_results) = skip THEN 1
          ELSE total_visits(mcts_results[Len(mcts_results)].result))
         * TotalsProduct(SubSeq(mcts_results, 1, Len(mcts_results) - 1), skip)

RECURSIVE PolicySum(_, _, _)
PolicySum(mcts_results, m, i) ==
    IF i = 0 THEN 0
    ELSE mcts_results[i].chance * mcts_results[i].result[m]
            * TotalsProduct(mcts_results, i)
         + PolicySum(mcts_results, m, i - 1)

\* final_policy: for every option the sum over the results of
\* sample_chance * (visits / total_visits), here multiplied by the product
\* of all total_visits so that it is a whole number
final_policy(mcts_results) ==
    [m \in BotMoves |-> PolicySum(mcts_results, m, Len(mcts_results))]

\* final_policy[0][1] after the sort in descending order
highest_percentage(policy) ==
    CHOOSE h \in {policy[m] : m \in DOMAIN policy} :
        \A m \in DOMAIN policy : policy[m] <= h

\* every option is considered
considered_choices_unfiltered(policy) == DOMAIN policy

\* i[1] >= highest_percentage * 0.75
considered_choices(policy) ==
    {m \in DOMAIN policy : 4 * policy[m] >= 3 * highest_percentage(policy)}

\* random.choices(final_policy, weights): any considered option of
\* positive weight
select_move_from_mcts_results(mcts_results) ==
    {m \in considered_choices(final_policy(mcts_results)) :
        final_policy(mcts_results)[m] > 0}

Future(chance) == [chance |-> chance, state |-> "pending", result |-> NoResult]

Pending(i) ==
    /\ search.pc = "running"
    /\ i \in 1..Len(search.futures)
    /\ search.futures[i].state = "pending"

\* what the search leaves alone
BattleVars == <<battle, datasets, pc, idx, lastMsg, dispatched, ret, sent,
                consecutive_errors, session>>

\* executor.submit of get_result_from_mcts for every sampled battle
Submit ==
    /\ search.pc = "idle"
    /\ \E n \in 1..MaxSamples : \E chance \in [1..n -> Chances] :
          search' = [search EXCEPT !.pc = "running",
                                   !.futures = [i \in 1..n |-> Future(chance[i])]]
    /\ UNCHANGED BattleVars

\* get_result_from_mcts returns in its worker process
WorkerReturns(i) ==
    /\ Pending(i)
    /\ \E r \in MctsResults :
          search' = [search EXCEPT !.futures[i].state = "done",
                                   !.futures[i].result = r]
    /\ UNCHANGED BattleVars

\* get_result_from_mcts raises, or its worker process dies
WorkerRaises(i) ==
    /\ Pending(i)
    /\ search' = [search EXCEPT !.futures[i].state = "failed"]
    /\ UNCHANGED BattleVars

\* the search budget and any grace period after it have gone by
BudgetExpires ==
    /\ search.pc = "running"
    /\ ~search.expired
    /\ search' = [search EXCEPT !.expired = TRUE]
    /\ UNCHANGED BattleVars

\* the with block ends once every future has finished; fut.result() then
\* returns the result of a future or raises what its worker raised
Collect ==
    /\ search.pc = "running"
    /\ \A i \in 1..Len(search.futures) : search.futures[i].state # "pending"
    /\ IF \E i \in 1..Len(search.futures) : search.futures[i].state = "failed"
       THEN search' = [search EXCEPT !.pc = "raised"]
       ELSE \E m \in select_move_from_mcts_results(search.futures) :
               search' = [search EXCEPT !.pc = "returned", !.choice = m]
    /\ UNCHANGED BattleVars

NextSearch ==
    \/ Submit
    \/ \E i \in 1..MaxSamples : WorkerReturns(i) \/ WorkerRaises(i)
    \/ BudgetExpires
    \/ Collect

SpecSearch == Init /\ [][NextSearch]_vars

\* C18: find_best_move does not raise because a worker has failed.
C18_WorkerFailureIsIsolated == search.pc # "raised"

\* C19: once the budget and the grace period have gone by, find_best_move
\* is no longer waiting for its workers.
C19_MoveWithinBudget == search.expired => search.pc # "running"

\* C20: the option find_best_move returns has a weighted score of at
\* least three quarters of the weighted score of every option.
C20_ChoiceWithinThreshold ==
    search.pc = "returned"
       => \A m \in BotMoves :
             4 * final_policy(search.futures)[search.choice]
                >= 3 * final_policy(search.futures)[m]

\* the returned option is not the best one, and the other option was
\* dropped in another call: here 4/3 against 5/3 of the best
C20_Witness ==
    /\ search.pc = "returned"
    /\ Len(search.futures) = 2
    /\ \E m \in BotMoves :
          /\ final_policy(search.futures)[m]
                > final_policy(search.futures)[search.choice]
          /\ 4 * final_policy(search.futures)[search.choice]
                >= 3 * final_policy(search.futures)[m]
----------------------------------------------------------------------------
(* fp/search/main.py: how many battles find_best_move samples and how the   *)
(* process pool runs a rollout on each                                      *)

\* FoulPlayConfig.parallelism is at most MaxParallelism
MaxParallelism == 2

\* FoulPlayConfig.search_time_ms
SearchTimes == {100, 251}

\* battle.time_remaining: <<>> for None, or the seconds
TimesRemaining == {<<>>, <<60>>, <<61>>}

in_time_pressure(time_remaining) == time_remaining # <<>> /\ time_remaining[1] <= 60

SearchPlan(num_battles, search_time) ==
    [num_battles |-> num_battles, search_time |-> search_time]

\* the random-battle plan with the multiplier alone as number of battles
search_time_num_battles_without_parallelism(parallelism, search_time_ms, blitz, revealed_pkmn, hp, num_moves, time_remaining) ==
    IF blitz THEN SearchPlan(1, search_time_ms)
    ELSE IF revealed_pkmn <= 3 /\ hp > 0 /\ num_moves = 0
         THEN SearchPlan(IF in_time_pressure(time_remaining) THEN 2 ELSE 4,
                         search_time_ms \div 2)
         ELSE SearchPlan(IF in_time_pressure(time_remaining) THEN 1 ELSE 2,
                         search_time_ms)

search_time_num_battles_randombattles(parallelism, search_time_ms, blitz, revealed_pkmn, hp, num_moves, time_remaining) ==
    IF blitz THEN SearchPlan(parallelism, search_time_ms)
    ELSE IF revealed_pkmn <= 3 /\ hp > 0 /\ num_moves = 0
         THEN SearchPlan(parallelism * (IF in_time_pressure(time_remaining) THEN 2 ELSE 4),
                         search_time_ms \div 2)
         ELSE SearchPlan(parallelism * (IF in_time_pressure(time_remaining) THEN 1 ELSE 2),
                         search_time_ms)

search_time_num_battles_standard_battle(parallelism, search_time_ms, team_preview, hp, num_moves, time_remaining) ==
    IF team_preview \/ (hp > 0 /\ num_moves = 0) \/ num_moves < 3
    THEN SearchPlan(parallelism * (IF in_time_pressure(time_remaining) THEN 1 ELSE 2),
                    search_time_ms)
    ELSE SearchPlan(parallelism, search_time_ms)

\* the plans find_best_move can come to for a battle of the type
SearchPlans(parallelism, battle_type) ==
    IF battle_type = "RANDOM_BATTLE"
    THEN {search_time_num_battles_randombattles(parallelism, t, blitz, revealed, hp, n, left) :
             t \in SearchTimes, blitz \in BOOLEAN, revealed \in {3, 4},
             hp \in {0, 100}, n \in {0, 1}, left \in TimesRemaining}
    ELSE {search_time_num_battles_standard_battle(parallelism, t, preview, hp, n, left) :
             t \in SearchTimes, preview \in BOOLEAN,
             hp \in {0, 100}, n \in {0, 3}, left \in TimesRemaining}

\* a process of the pool: the future it is running (0 for none) and the
\* rollouts it has run
IdleProcess == [future |-> 0, rollouts |-> 0]

\* find_best_move: the battles are sampled and a rollout on each is
\* submitted to a pool of FoulPlayConfig.parallelism processes
SubmitPlan ==
    /\ search.pc = "idle"
    /\ \E parallelism \in 1..MaxParallelism :
       \E plan \in SearchPlans(parallelism, battle.battle_type) :
          search' = [pc |-> "running",
                     parallelism |-> parallelism,
                     plan |-> plan,
                     futures |-> [i \in 1..plan.num_battles |-> "pending"],
                     pool |-> [w \in 1..parallelism |-> IdleProcess]]
    /\ UNCHANGED BattleVars

\* a process without work takes the oldest pending future and starts
\* get_result_from_mcts on it
StartRollout(w) ==
    /\ search.pc = "running"
    /\ w \in DOMAIN search.pool
    /\ search.pool[w].future = 0
    /\ \E i \in DOMAIN search.futures :
          /\ search.futures[i] = "pending"
          /\ \A j \in 1..(i - 1) : search.futures[j] # "pending"
          /\ search' = [search EXCEPT !.futures[i] = "running",
                                      !.pool[w].future = i,
                                      !.pool[w].rollouts = @ + 1]
    /\ UNCHANGED BattleVars

\* get_result_from_mcts returns
FinishRollout(w) ==
    /\ search.pc = "running"
    /\ w \in DOMAIN search.pool
    /\ search.pool[w].future # 0
    /\ search' = [search EXCEPT !.futures[search.pool[w].future] = "done",
                                !.pool[w].future = 0]
    /\ UNCHANGED BattleVars

\* every future has its result: find_best_move aggregates and returns
CollectPlan ==
    /\ search.pc = "running"
    /\ \A i \in DOMAIN search.futures : search.futures[i] = "done"
    /\ search' = [search EXCEPT !.pc = "returned"]
    /\ UNCHANGED BattleVars

NextPool ==
    \/ SubmitPlan
    \/ \E w \in 1..MaxParallelism : StartRollout(w) \/ FinishRollout(w)
    \/ CollectPlan

SpecPool == InitDamage /\ [][NextPool]_vars

\* the processes of the pool that have run a rollout
RolloutWorkers == {w \in DOMAIN search.pool : search.pool[w].rollouts > 0}

\* the multipliers the scheduling functions use
Multipliers == {1, 2, 4}

\* C21 as stated: a decision has parallelism times multiplier rollout
\* workers, and each of them has run one rollout.
C21_WorkersEqualParallelismTimesMultiplier ==
    search.pc = "returned"
       => /\ \E k \in Multipliers :
                /\ search.plan.num_battles = search.parallelism * k
                /\ Cardinality(RolloutWorkers) = search.parallelism * k
          /\ \A w \in RolloutWorkers : search.pool[w].rollouts = 1

\* C21: a decision has parallelism times multiplier rollouts, one for each
\* sampled battle, and they are run by at most parallelism processes, of
\* which none runs two rollouts at a time.
C21_RolloutsEqualParallelismTimesMultiplier ==
    search.pc \in {"running", "returned"}
       => /\ \E k \in Multipliers :
                Len(search.futures) = search.parallelism * k
          /\ Cardinality(DOMAIN search.pool) = search.parallelism
          /\ Cardinality({i \in DOMAIN search.futures : search.futures[i] = "running"})
                <= search.parallelism
          /\ \A i \in DOMAIN search.futures :
                Cardinality({w \in DOMAIN search.pool : search.pool[w].future = i})
                   = (IF search.futures[i] = "running" THEN 1 ELSE 0)
          /\ (search.pc = "returned"
                 => SumVisits([w \in DOMAIN search.pool |-> search.pool[w].rollouts],
                              DOMAIN search.pool) = Len(search.futures))

\* two processes have run the eight rollouts of an early random battle
C21_Witness ==
    /\ search.pc = "returned"
    /\ search.parallelism = 2
    /\ Len(search.futures) = 8
    /\ search.plan.search_time = 50
    /\ \A w \in DOMAIN search.pool : search.pool[w].rollouts > 1
----------------------------------------------------------------------------
(* fp_mcp: a BattleSession, the battle loop that waits for the decisions of *)
(* the agent, and the tools of the server that act on the session           *)

\* requests one battle loop waits at, decisions queued at a time
MaxRequests == 2
MaxQueue == 2

\* the decisions an agent submits: "tackle", "switch gliscor"
MoveDecision(mv) == [kind |-> "move", name |-> mv]
SwitchDecision(species) == [kind |-> "switch", name |-> species]
Decisions == {MoveDecision("tackle"), SwitchDecision("gliscor")}

\* the messages "/forfeit" and "gg"
Forfeit == [kind |-> "forfeit", name |-> ""]
GoodGame == [kind |-> "chat", name |-> "gg"]

\* BattleSession.update_state
update_state(s) ==
    [s EXCEPT !.status = IF @ = "searching" THEN "found"
                         ELSE IF @ # "waiting_move" THEN "active" ELSE @]

\* BattleSession.mark_finished
mark_finished(s) == [s EXCEPT !.status = "finished", !.awaiting_decision = FALSE]

\* BattleSession.mark_error: awaiting_decision is kept as it is
mark_error(s, error) == [s EXCEPT !.status = "error", !.error_message = error]

\* BattleSession.forfeit
forfeit(s) == [s EXCEPT !.status = "forfeited", !.awaiting_decision = FALSE]

\* submit_decision without the check of awaiting_decision
submit_decision_unchecked(s, action) ==
    [s EXCEPT !.decision_queue = Append(@, action), !.submitted = "queued",
              !.queue_rqids = Append(@, s.requests)]

\* BattleSession.submit_decision: ValueError unless a decision is awaited
submit_decision(s, action) ==
    IF ~s.awaiting_decision
    THEN [s EXCEPT !.submitted = "raised"]
    ELSE [s EXCEPT !.decision_queue = Append(@, action), !.submitted = "queued",
                   !.queue_rqids = Append(@, s.requests)]

\* format_decision raises ValueError for a switch to a Pokemon that is not
\* in the bot's reserve
format_decision_raises(b, decision) ==
    /\ decision.kind = "switch"
    /\ find_pokemon_in_reserves(b.user, decision.name) = 0

\* ps_client.send_message
send(s, message) == [s EXCEPT !.sent = Append(@, message)]

LoopVars == <<battle, datasets, pc, idx, lastMsg, dispatched, ret, sent,
              consecutive_errors, search>>

\* run_llm_battle_loop up to its first request: the battle has started
LoopStart ==
    /\ session.loop = "start"
    /\ \E first \in {"enter_wait", "receive"} :
          session' = [update_state(session) EXCEPT !.status = "active",
                                                   !.loop = first]
    /\ UNCHANGED LoopVars

\* wait_for_decision, up to its await
EnterWait ==
    /\ session.loop = "enter_wait"
    /\ session' = [session EXCEPT !.awaiting_decision = TRUE,
                                  !.status = "waiting_move",
                                  !.loop = "waiting"]
    /\ UNCHANGED LoopVars

\* wait_for_decision returns the decision at the head of the queue
DecisionReturned ==
    /\ session.loop = "waiting"
    /\ session.decision_queue # <<>>
    /\ session' = [session EXCEPT !.decision = Head(session.decision_queue),
                                  !.decision_queue = Tail(@),
                                  !.decision_rqid = Head(session.queue_rqids),
                                  !.queue_rqids = Tail(@),
                                  !.loop = "decided"]
    /\ UNCHANGED LoopVars

\* wait_for_decision: decision_timeout seconds have gone by with nothing in
\* the queue
DecisionTimeout ==
    /\ session.loop = "waiting"
    /\ session.decision_queue = <<>>
    /\ session' = [session EXCEPT !.awaiting_decision = FALSE,
                                  !.status = IF @ # "finished" THEN "active" ELSE @,
                                  !.loop = "timed_out"]
    /\ UNCHANGED LoopVars

\* the loop, after a decision timeout, sending a move all the same
MoveOnTimeout ==
    /\ session.loop = "timed_out"
    /\ session' = [send(session, MoveDecision("tackle")) EXCEPT !.loop = "ack"]
    /\ UNCHANGED LoopVars

\* except asyncio.TimeoutError of the loop
ForfeitOnTimeout ==
    /\ session.loop = "timed_out"
    /\ session' = [mark_error(send(session, Forfeit), "Decision timeout")
                      EXCEPT !.loop = "returned"]
    /\ UNCHANGED LoopVars

\* the decision is formatted and sent, and its rqid kept as last_sent_rqid
SendDecision ==
    /\ session.loop = "decided"
    /\ ~format_decision_raises(battle, session.decision)
    /\ session' = [send(session, session.decision)
                      EXCEPT !.awaiting_decision = FALSE,
                             !.status = "active",
                             !.last_sent_rqid = session.requests,
                             !.answers = Append(@, [rqid |-> session.requests,
                                                    submitted |-> session.decision_rqid]),
                             !.loop = "ack"]
    /\ UNCHANGED LoopVars

\* format_decision raises: every except clause on the way out calls
\* mark_error and raises again
SendRaises ==
    /\ session.loop = "decided"
    /\ format_decision_raises(battle, session.decision)
    /\ session' = [mark_error(session, "Failed to send move") EXCEPT !.loop = "raised"]
    /\ UNCHANGED LoopVars

\* a message of the server arrives within 15 seconds of the decision
Acknowledged ==
    /\ session.loop = "ack"
    /\ session' = [session EXCEPT !.loop = "receive"]
    /\ UNCHANGED LoopVars

\* the server is silent: 15 seconds after a decision, 60 seconds otherwise
ServerTimeout ==
    /\ session.loop \in {"ack", "receive"}
    /\ session' = [send(mark_error(session, "Server communication timeout"), Forfeit)
                      EXCEPT !.loop = "returned"]
    /\ UNCHANGED LoopVars

\* the message says that the battle is over
ReceiveFinished ==
    /\ session.loop = "receive"
    /\ session' = [mark_finished(send(session, GoodGame)) EXCEPT !.loop = "returned"]
    /\ UNCHANGED LoopVars

\* the message has no request: its lines are kept for the next one
ReceiveLines ==
    /\ session.loop = "receive"
    /\ session' = update_state(session)
    /\ UNCHANGED LoopVars

\* the message carries a request with a new rqid that tells the bot to wait
ReceiveWait ==
    /\ session.loop = "receive"
    /\ session.requests < MaxRequests
    /\ session' = [update_state(session) EXCEPT !.last_sent_rqid = -1,
                                                !.sent = <<>>,
                                                !.requests = @ + 1]
    /\ UNCHANGED LoopVars

\* the message carries a request with a new rqid the bot has to answer
ReceiveRequest ==
    /\ session.loop = "receive"
    /\ session.requests < MaxRequests
    /\ session' = [update_state([update_state(session) EXCEPT !.awaiting_decision = TRUE])
                      EXCEPT !.loop = "enter_wait",
                             !.last_sent_rqid = -1,
                             !.sent = <<>>,
                             !.requests = @ + 1]
    /\ UNCHANGED LoopVars

\* the loop waits for a decision again although it has sent one for the rqid
MoveAskedAgain ==
    /\ session.loop = "receive"
    /\ session.last_sent_rqid = session.requests
    /\ session' = [update_state([update_state(session) EXCEPT !.awaiting_decision = TRUE])
                      EXCEPT !.loop = "enter_wait"]
    /\ UNCHANGED LoopVars

\* the request the bot has to answer still has the rqid of the decision the
\* loop has sent
MoveRejected ==
    /\ session.loop = "receive"
    /\ session.last_sent_rqid = session.requests
    /\ session' = [send(mark_error(update_state(session), "Server did not process move"), Forfeit)
                      EXCEPT !.loop = "returned"]
    /\ UNCHANGED LoopVars

\* async_update_battle raises
UpdateRaises ==
    /\ session.loop = "receive"
    /\ session' = [mark_error(session, "update_battle") EXCEPT !.loop = "raised"]
    /\ UNCHANGED LoopVars

\* make_move of the server, once the action is validated: submit_decision
SubmitDecision ==
    /\ Len(session.decision_queue) < MaxQueue
    /\ \E action \in Decisions : session' = submit_decision(session, action)
    /\ UNCHANGED LoopVars

\* forfeit_battle of the server, called once while the session is not
\* forfeited
ForfeitBattle ==
    /\ session.status # "forfeited"
    /\ Len(session.sent) < 2
    /\ session' = send(forfeit(session), Forfeit)
    /\ UNCHANGED LoopVars

\* the steps the battle loop takes by itself
LoopSteps ==
    \/ LoopStart \/ EnterWait \/ DecisionReturned
    \/ ForfeitOnTimeout \/ SendDecision \/ SendRaises

NextSession ==
    \/ LoopSteps
    \/ DecisionTimeout
    \/ Acknowledged \/ ServerTimeout \/ ReceiveFinished \/ ReceiveRequest
    \/ ReceiveLines \/ ReceiveWait
    \/ MoveRejected \/ UpdateRaises
    \/ SubmitDecision \/ ForfeitBattle

SpecSession == Init /\ [][NextSession]_vars

\* the event loop resumes the battle loop whenever it can go on
SpecSessionLive == SpecSession /\ WF_vars(LoopSteps)

\* C22: once the wait for a decision has timed out, the loop comes to its
\* end having sent /forfeit and no move for the request, with
\* awaiting_decision false.
C22_DecisionTimeoutForfeits ==
    (session.loop = "timed_out")
       ~> /\ session.loop = "returned"
          /\ session.error_message = "Decision timeout"
          /\ ~session.awaiting_decision
          /\ session.sent # <<>>
          /\ \A k \in 1..Len(session.sent) : session.sent[k] = Forfeit

C22_Witness ==
    /\ session.loop = "returned"
    /\ session.error_message = "Decision timeout"
    /\ ~session.awaiting_decision
    /\ session.sent = <<Forfeit>>
    /\ session.requests = MaxRequests

\* C24: a session that is finished, in error or forfeited awaits no decision.
C24_EndedSessionAwaitsNothing ==
    session.status \in {"finished", "error", "forfeited"}
       => ~session.awaiting_decision

\* C25: wait_for_decision sets awaiting_decision and the status
\* WAITING_MOVE when it starts to wait, and awaiting_decision is false
\* when it has returned a decision.
C25_WaitForDecisionFlags ==
    [][/\ (session.loop = "enter_wait" /\ session'.loop = "waiting")
             => /\ session'.awaiting_decision
                /\ session'.status = "waiting_move"
       /\ (session.loop = "waiting" /\ session'.loop = "decided")
             => ~session'.awaiting_decision]_vars

\* C26: a decision enters the queue only while awaiting_decision is true,
\* and a submit_decision call made while it is false raises.
C26_DecisionsQueuedOnlyWhileAwaiting ==
    [][/\ Len(session'.decision_queue) > Len(session.decision_queue)
             => session.awaiting_decision
       /\ (~session.awaiting_decision /\ session'.submitted # session.submitted)
             => /\ session'.submitted = "raised"
                /\ session'.decision_queue = session.decision_queue]_vars

\* a call has raised after an earlier one had queued its decision
C26_Witness ==
    /\ session.submitted = "raised"
    /\ ~session.awaiting_decision
    /\ session.loop = "ack"
    /\ session.sent = <<MoveDecision("tackle")>>

-----------------------------------------------------------------------------
(* The actions offered to the player of a session (fp_mcp/serialization.py) *)

\* Pokemon.is_alive
is_alive(pkmn) == pkmn.hp > 0

\* the moves of the active Pokemon, the reserve, and what the request says
\* of them, as get_available_actions reads them
ActiveMoves ==
    {<<[name |-> "tackle", disabled |-> d, current_pp |-> pp]>> :
        d \in BOOLEAN, pp \in {0, 1}}

Reserves ==
    {<<[name |-> "gliscor", hp |-> h1], [name |-> "heatran", hp |-> h2]>> :
        h1 \in {0, 100}, h2 \in {0, 100}}
      \cup {<<>>}

BattleViews ==
    [force_switch : BOOLEAN,
     user : [active : [moves : ActiveMoves,
                       can_terastallize : BOOLEAN,
                       can_mega_evo : BOOLEAN],
             reserve : Reserves,
             trapped : BOOLEAN]]

\* what a caller of make_move may pass
ActionStrings ==
    {"tackle", "tackle-tera", "tackle-mega", "earthquake",
     "switch gliscor", "switch heatran", "switch jolteon", "switch"}

\* for pkmn in reserve: if pkmn.is_alive(): actions.append(f"switch {pkmn.name}")
SwitchActions(reserve) ==
    LET alive == SelectSeq(reserve, is_alive)
    IN [k \in 1..Len(alive) |-> "switch " \o alive[k].name]

RECURSIVE MoveActions(_, _)
\* for move in active.moves: the move, then its tera and mega variants
MoveActions(active, k) ==
    IF k > Len(active.moves) THEN <<>>
    ELSE LET mv == active.moves[k]
             own == IF ~mv.disabled /\ mv.current_pp > 0
                    THEN <<mv.name>>
                           \o (IF active.can_terastallize
                               THEN <<mv.name \o "-tera">> ELSE <<>>)
                           \o (IF active.can_mega_evo
                               THEN <<mv.name \o "-mega">> ELSE <<>>)
                    ELSE <<>>
         IN own \o MoveActions(active, k + 1)

\* get_available_actions offering every Pokemon of the reserve on a forced
\* switch, fainted or not
get_available_actions_with_fainted(b) ==
    IF b.force_switch
    THEN [k \in 1..Len(b.user.reserve) |-> "switch " \o b.user.reserve[k].name]
    ELSE MoveActions(b.user.active, 1)
           \o (IF ~b.user.trapped THEN SwitchActions(b.user.reserve) ELSE <<>>)

get_available_actions(b) ==
    IF b.force_switch
    THEN SwitchActions(b.user.reserve)
    ELSE MoveActions(b.user.active, 1)
           \o (IF ~b.user.trapped THEN SwitchActions(b.user.reserve) ELSE <<>>)

\* validate_action: action in available
validate_action(b, action) ==
    \E k \in 1..Len(get_available_actions(b)) : get_available_actions(b)[k] = action

\* the session of a battle whose state the loop has stored, before any tool
\* is called
InitActions ==
    /\ battle = NewBattle("gen9", "STANDARD_BATTLE")
    /\ datasets = InitialDatasets
    /\ pc = "pick" /\ idx = 0 /\ lastMsg = <<>> /\ dispatched = <<>>
    /\ ret = TRUE /\ sent = "" /\ consecutive_errors = 0
    /\ search = NoSearch
    /\ \E b \in BattleViews :
          session = [battle |-> b, listed |-> FALSE, available |-> <<>>,
                     action |-> "", valid |-> FALSE]

\* get_available_actions of the server: the actions of the stored battle
get_available_actions_tool ==
    /\ session' = [session EXCEPT !.listed = TRUE,
                                  !.available = get_available_actions(session.battle)]
    /\ UNCHANGED LoopVars

\* make_move of the server, up to the validation of the action
ValidateMove ==
    /\ \E action \in ActionStrings :
          session' = [session EXCEPT !.action = action,
                                     !.valid = validate_action(session.battle, action)]
    /\ UNCHANGED LoopVars

NextActions == get_available_actions_tool \/ ValidateMove

SpecActions == InitActions /\ [][NextActions]_vars

\* the switches to the alive Pokemon of the reserve
AliveSwitches(b) ==
    {"switch " \o b.user.reserve[k].name :
        k \in {j \in 1..Len(b.user.reserve) : b.user.reserve[j].hp > 0}}

\* C23: while force_switch is true the actions offered are exactly the
\* switches to the alive Pokemon of the bot's reserve, and validation
\* accepts an action if and only if it is one of them.
C23_ForcedSwitchOffersAliveReserveOnly ==
    session.battle.force_switch
       => /\ session.listed
             => {session.available[k] : k \in 1..Len(session.available)}
                   = AliveSwitches(session.battle)
          /\ session.action # ""
             => (session.valid <=> session.action \in AliveSwitches(session.battle))

\* a forced switch with Gliscor fainted and Heatran alive, a usable move on
\* the active Pokemon: Heatran alone is offered, and the move is rejected
C23_Witness ==
    /\ session.battle.force_switch
    /\ session.battle.user.reserve
          = <<[name |-> "gliscor", hp |-> 0], [name |-> "heatran", hp |-> 100]>>
    /\ session.battle.user.active.moves
          = <<[name |-> "tackle", disabled |-> FALSE, current_pp |-> 1]>>
    /\ session.listed
    /\ session.available = <<"switch heatran">>
    /\ session.action = "tackle"
    /\ ~session.valid

-----------------------------------------------------------------------------
(* Heavy-Duty Boots: the opponent switches in onto entry hazards *)

Hazards == {"stealthrock", "spikes", "toxicspikes", "stickyweb"}

\* the lines that show the effect of a hazard, or of something else
EffectLines ==
    {Line("-damage", OpponentName, "", 88, "[from] Stealth Rock", ""),
     Line("-damage", OpponentName, "", 88, "[from] Spikes", ""),
     Line("-status", OpponentName, "psn", 0, "", ""),
     Line("-activate", OpponentName, "move: Sticky Web", 0, "", "")}

\* a turn of the opponent: one of its Pokemon enters, a line that may show
\* the effect of a hazard follows it or not, and the request ends the turn
BootsMsgs ==
    {<<sw, RequestMove>> : sw \in {SwitchLine(OpponentName, "Heatran", 100),
                                   SwitchLine(OpponentName, "Zoroark", 100)}}
      \cup {<<sw, e, RequestMove>> :
                sw \in {SwitchLine(OpponentName, "Heatran", 100),
                        SwitchLine(OpponentName, "Zoroark", 100)},
                e \in EffectLines}

NextBoots == Step(BootsMsgs)

\* the hazards that lie on the opponent's side when the model starts
LaidHazards ==
    {{"stealthrock"}, {"spikes"}, {"toxicspikes"}, {"stickyweb"},
     {"stealthrock", "spikes"}, {"spikes", "toxicspikes", "stickyweb"}}

\* a battle in which any of the hazards lie on the opponent's side
InitBoots ==
    /\ \E laid \in LaidHazards :
          battle = [NewBattle("gen9", "STANDARD_BATTLE")
                       EXCEPT !.opponent.side_conditions =
                                  [c \in SideConditions |->
                                      IF c \in laid THEN 1 ELSE 0]]
    /\ datasets = InitialDatasets
    /\ pc = "pick" /\ idx = 0 /\ lastMsg = <<>> /\ dispatched = <<>>
    /\ ret = TRUE /\ sent = "" /\ consecutive_errors = 0
    /\ search = NoSearch /\ session = NoSession

SpecBoots == InitBoots /\ [][NextBoots]_vars

\* the Pokemon is not affected by the hazard when it enters
ExemptFrom(pkmn, hazard) ==
    \/ "magicguard" \in pokedex[pkmn.name].abilities
    \/ /\ hazard \in {"spikes", "toxicspikes", "stickyweb"}
       \/ "flying" \in pokedex[pkmn.name].types
          \/ "levitate" \in pokedex[pkmn.name].abilities
          \/ pkmn.ability = "levitate"
    \/ /\ hazard = "toxicspikes"
       \/ pkmn.status # None
          \/ pokedex[pkmn.name].types \cap {"poison", "steel"} # {}
          \/ pkmn.ability \in IMMUNE_TO_POISON_ABILITIES

\* the lines after the switch show the effect of the hazard on the
\* opponent's Pokemon
EffectShown(hazard, lines) ==
    CASE hazard = "stealthrock" ->
            \E k \in 1..Len(lines) :
                /\ lines[k].tag = "-damage" /\ lines[k].who = OpponentName
                /\ lines[k].ann = "[from] Stealth Rock"
      [] hazard = "spikes" ->
            \E k \in 1..Len(lines) :
                /\ lines[k].tag = "-damage" /\ lines[k].who = OpponentName
                /\ lines[k].ann = "[from] Spikes"
      [] hazard = "toxicspikes" ->
            \E k \in 1..Len(lines) :
                /\ lines[k].tag = "-status" /\ lines[k].who = OpponentName
                /\ lines[k].x \in {"psn", "tox"}
                /\ \A j \in 1..(k - 1) : lines[j].tag \notin {"move", "upkeep"}
      [] hazard = "stickyweb" ->
            \E k \in 1..Len(lines) :
                /\ lines[k].tag = "-activate" /\ lines[k].who = OpponentName
                /\ lines[k].x = "move: Sticky Web"

\* the hazards of the opponent's side that affect the Pokemon entering
HazardsFaced(b) ==
    {h \in Hazards : /\ b.opponent.side_conditions[h] > 0
                     /\ ~ExemptFrom(b.opponent.active, h)}

\* C27: when the opponent's Pokemon enters in gen8 or gen9 with its item
\* unknown onto hazards that affect it, and the lines after the switch show
\* the effect of none of them, its item becomes heavydutyboots and
\* item_inferred true; when they show the effect of each of them,
\* heavydutyboots joins its impossible_items and nothing else of it changes.
C27_HazardsTellHeavyDutyBoots ==
    [][(/\ HandlingLine
        /\ CurrentLine.tag = "switch"
        /\ is_opponent(battle, CurrentLine))
       => LET entered == function_to_call(battle, datasets, CurrentLine)
              pkmn == entered.opponent.active
              lines == SubSeq(battle.msg_list, idx + 1, Len(battle.msg_list))
          IN (/\ entered.generation \in {"gen8", "gen9"}
              /\ pkmn.item = UNKNOWN_ITEM
              /\ HazardsFaced(entered) # {})
             => /\ (\A h \in HazardsFaced(entered) : ~EffectShown(h, lines))
                      => battle'.opponent.active
                            = [pkmn EXCEPT !.item = "heavydutyboots",
                                           !.item_inferred = TRUE]
                /\ (\A h \in HazardsFaced(entered) : EffectShown(h, lines))
                      => battle'.opponent.active
                            = [pkmn EXCEPT !.impossible_items =
                                              @ \cup {"heavydutyboots"}]]_vars

\* Zoroark has entered onto Stealth Rock and taken its damage, Heatran has
\* entered after it and taken none
C27_Witness ==
    /\ pc = "idle"
    /\ battle.opponent.side_conditions["stealthrock"] > 0
    /\ battle.opponent.active.name = "heatran"
    /\ battle.opponent.active.item = "heavydutyboots"
    /\ battle.opponent.active.item_inferred
    /\ \E k \in 1..Len(battle.opponent.reserve) :
          /\ battle.opponent.reserve[k].name = "zoroark"
          /\ "heavydutyboots" \in battle.opponent.reserve[k].impossible_items
          /\ battle.opponent.reserve[k].item = UNKNOWN_ITEM

-----------------------------------------------------------------------------
(* Sleep counters in gen3 and gen5: the opponent's Pokemon rests, sleeps,   *)
(* calls moves with Sleep Talk and leaves the field                         *)

CantSleep == Line("cant", OpponentName, "slp", 0, "", "")

\* the opponent uses Rest, or is put to sleep by the bot
FallAsleepMsgs ==
    {<<MoveLine(OpponentName, "Rest"),
       Line("-status", OpponentName, "slp", 0, "[from] move: Rest", ""),
       RequestMove>>,
     <<Line("-status", OpponentName, "slp", 0, "", ""), RequestMove>>}

\* the turns of the opponent in gen5, each ended by the request: it falls
\* asleep, spends a turn asleep, is dragged out asleep, comes back
Gen5SleepMsgs ==
    FallAsleepMsgs
      \cup {<<CantSleep, RequestMove>>,
            <<CantSleep, Line("drag", OpponentName, "Heatran", 100, "", ""),
              RequestMove>>,
            <<SwitchLine(OpponentName, "Gliscor", 100), RequestMove>>}

\* the turns of the opponent in gen3: it falls asleep, has Tackle called
\* by Sleep Talk, leaves, comes back
Gen3SleepMsgs ==
    FallAsleepMsgs
      \cup {<<CantSleep, MoveLine(OpponentName, "Sleep Talk"),
              Line("move", OpponentName, "Tackle", 0, "[from]Sleep Talk", ""),
              RequestMove>>,
            <<SwitchLine(OpponentName, "Heatran", 100), RequestMove>>,
            <<SwitchLine(OpponentName, "Gliscor", 100), RequestMove>>}

NextSleepGen5 == Step(Gen5SleepMsgs)

NextSleepGen3 == Step(Gen3SleepMsgs)

SpecSleepGen5 == InitBattle("gen5", "STANDARD_BATTLE") /\ [][NextSleepGen5]_vars

SpecSleepGen3 == InitBattle("gen3", "STANDARD_BATTLE") /\ [][NextSleepGen3]_vars

\* the step handles a switch or drag line that takes a sleeping Pokemon
\* off the field for one of another species
SleeperLeaves ==
    /\ HandlingLine
    /\ CurrentLine.tag \in {"switch", "drag"}
    /\ battle[SideKey(battle, CurrentLine)].active.status = "slp"
    /\ normalize_name(CurrentLine.x)
          # battle[SideKey(battle, CurrentLine)].active.name

\* the Pokemon that was active, as it is in the reserve after the step
Left ==
    LET side == battle'[SideKey(battle, CurrentLine)]
    IN side.reserve[find_pokemon_in_reserves(
                        side, battle[SideKey(battle, CurrentLine)].active.name)]

\* the Pokemon of the reserve the line sends out, 0 when it is a new one
Entering ==
    find_pokemon_in_reserves(battle[SideKey(battle, CurrentLine)],
                             normalize_name(CurrentLine.x))

\* C28: in gen5 a sleeping Pokemon that leaves the field has its rest_turns
\* set to 3 when they are not 0, and its sleep_turns set to 0 otherwise;
\* the Pokemon that enters from the reserve has the counters it had there.
C28_Gen5SleepCountersResetOnSwitchOut ==
    [][/\ (SleeperLeaves /\ battle.generation = "gen5")
             => LET old == battle[SideKey(battle, CurrentLine)].active
                IN /\ old.rest_turns # 0
                         => /\ Left.rest_turns = 3
                            /\ Left.sleep_turns = old.sleep_turns
                   /\ old.rest_turns = 0
                         => /\ Left.sleep_turns = 0
                            /\ Left.rest_turns = 0
       /\ (/\ HandlingLine
           /\ CurrentLine.tag \in {"switch", "drag"}
           /\ battle.generation = "gen5"
           /\ Entering # 0)
             => LET side == battle[SideKey(battle, CurrentLine)]
                    in == battle'[SideKey(battle, CurrentLine)].active
                IN /\ in.rest_turns = side.reserve[Entering].rest_turns
                   /\ in.sleep_turns = side.reserve[Entering].sleep_turns]_vars

\* Gliscor, asleep from Rest, has spent a turn asleep and been dragged out:
\* in the reserve its rest_turns are 3 again
C28_Witness ==
    /\ battle.generation = "gen5"
    /\ dispatched = <<CantSleep, Line("drag", OpponentName, "Heatran", 100, "", "")>>
    /\ battle.opponent.active.name = "heatran"
    /\ \E k \in 1..Len(battle.opponent.reserve) :
          /\ battle.opponent.reserve[k].name = "gliscor"
          /\ battle.opponent.reserve[k].status = "slp"
          /\ battle.opponent.reserve[k].rest_turns = 3

-----------------------------------------------------------------------------
(* The order of the inference passes within process_battle_updates *)

\* the step runs check_speed_ranges
SpeedPass == pc = "speed" /\ pc' = "lines"

\* the step handles a line whose handler is followed by inference passes:
\* Hidden Power, Choice Scarf and the damage rolls after a move, Heavy-Duty
\* Boots after an opponent's switch
PassOfLine ==
    /\ HandlingLine
    /\ \/ CurrentLine.tag = "move"
       \/ CurrentLine.tag = "switch" /\ is_opponent(battle, CurrentLine)

\* the step after which the loop of the battle waits for the next message:
\* a move has been picked, or the request was one to wait
ReturnsToIdle == pc # "idle" /\ pc' = "idle"

\* the lines of the buffer from index i on that have a handler
HandlersFrom(i) ==
    SelectSeq(SubSeq(battle.msg_list, i, Len(battle.msg_list)), KnownTag)

\* C30 as stated: an inference pass runs only once the handlers of all the
\* buffered lines have run, and the search runs after all the passes.
C30_PassesRunAfterAllLines ==
    [][/\ SpeedPass => HandlersFrom(1) = <<>>
       /\ PassOfLine => HandlersFrom(idx + 1) = <<>>
       /\ ReturnsToIdle => battle'.msg_list = <<>>]_vars

\* C30: check_speed_ranges runs on the whole batch before the handler of
\* any of its lines; the passes of a line run in the iteration of that
\* line, when the handlers of the lines up to it have run and those of the
\* later lines have not; a move is picked, or the next message awaited,
\* when the loop has handled every line and the buffer is cleared.
C30_PassesRunInLoopOrder ==
    [][/\ SpeedPass
            => /\ idx = 0
               /\ dispatched = <<>>
               /\ battle' = check_speed_ranges(battle, battle.msg_list)
       /\ PassOfLine
            => dispatched' = SelectSeq(SubSeq(battle.msg_list, 1, idx), KnownTag)
       /\ (pc = "lines" /\ pc' = "pick")
            => dispatched = SelectSeq(battle.msg_list, KnownTag)
       /\ ReturnsToIdle
            => /\ battle'.msg_list = <<>>
               /\ pc = "lines" => idx > Len(battle.msg_list)]_vars

\* the passes of the opponent's switch have run, and the handler of the
\* move line after it has not
C30_Witness ==
    /\ pc = "lines"
    /\ idx = 2
    /\ battle.msg_list = <<SwitchLine(OpponentName, "Gliscor", 100),
                           MoveLine(OpponentName, "Night Daze")>>
    /\ dispatched = <<SwitchLine(OpponentName, "Gliscor", 100)>>
----------------------------------------------------------------------------
(* fp/evaluate.py: compute_battle_evaluation turns the results of the       *)
(* rollouts and the move that was selected into a BattleEvaluation          *)

\* a selected_move that no result has among the options of side_one
AbsentMove == "switch zoroark"

\* final_policy[move]["raw_score"]: the sum over the results of
\* sample_chance * (visits / total_visits), multiplied by the product of
\* all total_visits so that it is a whole number
raw_score(mcts_results) ==
    [m \in BotMoves |-> PolicySum(mcts_results, m, Len(mcts_results))]

\* max(p["raw_score"] for p in final_policy.values())
max_score(mcts_results) ==
    CHOOSE h \in {raw_score(mcts_results)[m] : m \in BotMoves} :
        \A m \in BotMoves : raw_score(mcts_results)[m] <= h

\* raw_score / max_score if max_score > 0 else 0.0, as a fraction
optimality(mcts_results, m) ==
    IF max_score(mcts_results) > 0
    THEN [num |-> raw_score(mcts_results)[m], den |-> max_score(mcts_results)]
    ELSE [num |-> 0, den |-> 1]

\* evaluations: one MoveEvaluation for every option of final_policy
evaluations(mcts_results) ==
    [m \in BotMoves |-> [move |-> m,
                         optimality |-> optimality(mcts_results, m),
                         raw_score |-> raw_score(mcts_results)[m]]]

\* x.optimality > y.optimality
higher_optimality(x, y) ==
    x.optimality.num * y.optimality.den > y.optimality.num * x.optimality.den

\* best_move is selected_move; only a selected_move that is not among the
\* evaluations is replaced, by a move of the highest optimality
best_moves(mcts_results, selected_move) ==
    IF selected_move \in DOMAIN evaluations(mcts_results)
    THEN {selected_move}
    ELSE {m \in BotMoves :
            \A o \in BotMoves :
               ~higher_optimality(evaluations(mcts_results)[o],
                                  evaluations(mcts_results)[m])}

\* the results of one to MaxSamples sampled battles
SampledResults ==
    UNION {[1..n -> [chance : Chances, result : MctsResults]] : n \in 1..MaxSamples}

\* the rollouts have returned and a move has been selected from them, as
\* select_move_from_mcts_results selects it, or it is the move of a caller
\* that is not among the options
InitEvaluate ==
    /\ battle = NewBattle("gen9", "STANDARD_BATTLE")
    /\ datasets = InitialDatasets
    /\ pc = "pick" /\ idx = 0 /\ lastMsg = <<>> /\ dispatched = <<>>
    /\ ret = TRUE /\ sent = "" /\ consecutive_errors = 0
    /\ session = NoSession
    /\ \E mcts_results \in SampledResults :
       \E selected_move \in select_move_from_mcts_results(mcts_results) \cup {AbsentMove} :
          search = [pc |-> "selected", mcts_results |-> mcts_results,
                    selected_move |-> selected_move, best_move |-> None,
                    evaluations |-> [m \in BotMoves |->
                                        [move |-> m,
                                         optimality |-> [num |-> 0, den |-> 1],
                                         raw_score |-> 0]]]

compute_battle_evaluation ==
    /\ search.pc = "selected"
    /\ \E best_move \in best_moves(search.mcts_results, search.selected_move) :
          search' = [search EXCEPT !.pc = "evaluated",
                                   !.best_move = best_move,
                                   !.evaluations = evaluations(search.mcts_results)]
    /\ UNCHANGED BattleVars

NextEvaluate == compute_battle_evaluation

SpecEvaluate == InitEvaluate /\ [][NextEvaluate]_vars

\* C31: in a computed evaluation the move reported as best_move has
\* optimality 1.0 and no move has a higher optimality than it.
C31_BestMoveHasOptimalityOne ==
    search.pc = "evaluated"
       => /\ search.evaluations[search.best_move].optimality.num
               = search.evaluations[search.best_move].optimality.den
          /\ \A m \in BotMoves :
                ~higher_optimality(search.evaluations[m],
                                   search.evaluations[search.best_move])
-----------------------------------------------------------------------------
(* Speed bounds from the order of the moves of a turn, with the events     *)
(* that make the order say nothing and with trick room                     *)

TrickRoomStart == Line("-fieldstart", "", "Trick Room", 0, "", UserName)
TrickRoomEnd == Line("-fieldend", "", "Trick Room", 0, "", "")

\* the lines after which the order of the moves says nothing
OrderDisturbed ==
    {SwitchLine(OpponentName, "Heatran", 100),
     Line("cant", OpponentName, "flinch", 0, "", ""),
     Line("-activate", UserName, "confusion", 0, "", ""),
     Line("-enditem", OpponentName, "Custap Berry", 0, "[eat]", ""),
     Line("-activate", OpponentName, "item: Quick Claw", 0, "", ""),
     Line("-activate", UserName, "ability: Quick Draw", 0, "", "")}

OpponentMoves == {MoveLine(OpponentName, "Tackle")}
UserMoves == {MoveLine(UserName, "Tackle"), MoveLine(UserName, "Quick Attack")}

SpeedDrop == Line("-unboost", UserName, "speed", 6, "", "")

\* the turns of a battle: both sides move in either order, one side moves,
\* a third move follows, a line of OrderDisturbed comes between the moves,
\* nobody moves
OrderTurns ==
    {<<o, u, RequestMove>> : o \in OpponentMoves, u \in UserMoves}
      \cup {<<u, o, RequestMove>> : o \in OpponentMoves, u \in UserMoves}
      \cup {<<m, RequestMove>> : m \in OpponentMoves \cup {MoveLine(UserName, "Tackle")}}
      \cup {<<MoveLine(UserName, "Tackle"), MoveLine(OpponentName, "Tackle"),
              MoveLine(UserName, "Tackle"), RequestMove>>}
      \cup {<<MoveLine(UserName, "Tackle"), d, MoveLine(OpponentName, "Tackle"),
              RequestMove>> : d \in OrderDisturbed}
      \cup {<<HintLine, RequestMove>>}

NextOrder == Step(OrderTurns)

SpecOrder == Init /\ [][NextOrder]_vars

\* the turns of a battle in which trick room starts and ends
TrickRoomTurns ==
    {<<MoveLine(OpponentName, "Tackle"), MoveLine(UserName, "Tackle"), RequestMove>>,
     <<MoveLine(UserName, "Tackle"), MoveLine(OpponentName, "Tackle"), RequestMove>>,
     <<MoveLine(OpponentName, "Tackle"), RequestMove>>,
     <<TrickRoomStart, RequestMove>>,
     <<TrickRoomEnd, RequestMove>>,
     <<SpeedDrop, RequestMove>>}

NextTrickRoom == Step(TrickRoomTurns)

SpecTrickRoom == Init /\ [][NextTrickRoom]_vars

\* the speed ranges of the opponent's Pokemon, by name
SpeedRanges(b) ==
    [n \in {p.name : p \in PokemonOf(b.opponent)} |->
        (CHOOSE p \in PokemonOf(b.opponent) : p.name = n).speed_range]

\* the priorities of the |move| lines of the buffer
Priorities(msg_lines) ==
    [i \in 1..Len(move_lines(msg_lines)) |->
        all_move_json[normalize_name(move_lines(msg_lines)[i].x)].priority]

\* an event of the turn after which the claim lets no bound be inferred
TurnDisqualified(b) ==
    \/ \E i \in 1..Len(b.msg_list) :
          LET ln == b.msg_list[i]
          IN \/ ln.tag \in {"switch", "cant"}
             \/ ln.tag = "-activate" /\ ln.x = "confusion"
             \/ ln.x \in {"Custap Berry", "item: Quick Claw", "ability: Quick Draw"}
    \/ Len(move_lines(b.msg_list)) \notin {1, 2}
    \/ /\ Len(move_lines(b.msg_list)) = 2
       /\ Priorities(b.msg_list)[1] # Priorities(b.msg_list)[2]
    \/ /\ Len(move_lines(b.msg_list)) = 1
       /\ Priorities(b.msg_list)[1]
             # all_move_json[normalize_name(b.user.last_selected_move.move)].priority

\* C32: check_speed_ranges leaves every speed range as it is in a turn in
\* which a side switched, a cant or a confusion line came, a Custap Berry,
\* Quick Claw or Quick Draw line came, the number of moves is not one or
\* two, or the priorities of the two moves differ.
C32_DisqualifiedTurnKeepsSpeedRange ==
    [][SpeedPass /\ TurnDisqualified(battle)
          => SpeedRanges(battle') = SpeedRanges(battle)]_vars

\* check_speed_ranges has run on a turn of each kind of the claim
C32_Witness ==
    /\ pc = "lines" /\ idx = 1
    /\ TurnDisqualified(battle)
    /\ Len(move_lines(battle.msg_list)) = 2
    /\ Priorities(battle.msg_list)[1] # Priorities(battle.msg_list)[2]
    /\ battle.opponent.active.speed_range # StatRange(0, INF)

\* the first move of the buffer is the bot's
BotWentFirst(b) == move_lines(b.msg_list)[1].who = b.user.name

\* C33: check_speed_ranges never lowers the min or raises the max of a speed
\* range; outside trick room it leaves the min alone when the bot moved
\* first and the max alone when the opponent moved first, and under trick
\* room the other way round.
C33_SpeedBoundsOnlyNarrow ==
    [][SpeedPass =>
          LET old == battle.opponent.active.speed_range
              new == battle'.opponent.active.speed_range
          IN /\ new.min >= old.min /\ new.max <= old.max
             /\ SpeedRanges(battle') = [SpeedRanges(battle) EXCEPT
                                           ![battle.opponent.active.name] = new]
             /\ new # old =>
                   IF BotWentFirst(battle) = ~battle.trick_room
                   THEN new.min = old.min /\ new.max < old.max
                   ELSE new.max = old.max /\ new.min > old.min]_vars

\* under trick room the opponent moved first and the max of its range, whose
\* min had been set before, is the threshold
C33_Witness ==
    /\ pc = "lines" /\ idx = 1
    /\ battle.trick_room
    /\ Len(move_lines(battle.msg_list)) = 2
    /\ ~TurnDisqualified(battle)
    /\ ~BotWentFirst(battle)
    /\ battle.opponent.active.speed_range.min > 0
    /\ battle.opponent.active.speed_range.max = speed_threshold(battle)
-----------------------------------------------------------------------------
(* fp/search/random_battles.py: populate_randombattle_unrevealed_pkmn fills *)
(* the opponent's team up to six with sample_randombattle_pokemon           *)

\* RandomBattleTeamDatasets.pkmn_sets: the species of the dataset with
\* their types, the types that are super effective against them and those
\* among them that do four times the damage
RandomBattleSpecies ==
    [p \in {"gliscor", "landorus", "garchomp", "dragonite", "heatran",
            "jolteon", "zoroark"} |->
        CASE p = "gliscor" ->
                [types |-> {"ground", "flying"}, weak |-> {"water", "ice"},
                 weak4x |-> {"ice"}]
          [] p = "landorus" ->
                [types |-> {"ground", "flying"}, weak |-> {"water", "ice"},
                 weak4x |-> {"ice"}]
          [] p = "garchomp" ->
                [types |-> {"dragon", "ground"}, weak |-> {"ice", "dragon", "fairy"},
                 weak4x |-> {"ice"}]
          [] p = "dragonite" ->
                [types |-> {"dragon", "flying"},
                 weak |-> {"ice", "rock", "dragon", "fairy"}, weak4x |-> {"ice"}]
          [] p = "heatran" ->
                [types |-> {"fire", "steel"}, weak |-> {"ground", "fighting", "water"},
                 weak4x |-> {"ground"}]
          [] p = "jolteon" ->
                [types |-> {"electric"}, weak |-> {"ground"}, weak4x |-> {}]
          [] p = "zoroark" ->
                [types |-> {"dark"}, weak |-> {"fighting", "bug", "fairy"},
                 weak4x |-> {}]]

\* POKEMON_TYPE_INDICES.keys(), as far as the species of the model have or
\* fear them
POKEMON_TYPE_INDICES ==
    UNION {RandomBattleSpecies[p].types \cup RandomBattleSpecies[p].weak :
              p \in DOMAIN RandomBattleSpecies}

\* the number of Pokemon of the team that test holds of
NumberOf(team, test(_)) == Cardinality({p \in team : test(p)})

_more_than_3_pokemon_weak_to_a_given_typing(team) ==
    \E t \in POKEMON_TYPE_INDICES :
        NumberOf(team, LAMBDA p : t \in RandomBattleSpecies[p].weak) > 3

_more_than_2_pokemon_of_any_type(team) ==
    \E t \in POKEMON_TYPE_INDICES :
        NumberOf(team, LAMBDA p : t \in RandomBattleSpecies[p].types) > 2

_more_than_1_pokemon_with_4x_weakness(team) ==
    \E t \in POKEMON_TYPE_INDICES :
        NumberOf(team, LAMBDA p : t \in RandomBattleSpecies[p].weak4x) > 1

\* a draw breaks a team-generation constraint
breaks_constraint(existing_pokemon, pkmn_name) ==
    \/ _more_than_3_pokemon_weak_to_a_given_typing(existing_pokemon \cup {pkmn_name})
    \/ _more_than_2_pokemon_of_any_type(existing_pokemon \cup {pkmn_name})
    \/ _more_than_1_pokemon_with_4x_weakness(existing_pokemon \cup {pkmn_name})

\* the constraints are never given up
draw_ok_constraints_kept(existing_pokemon, pkmn_name, sample_count) ==
    /\ pkmn_name \notin existing_pokemon
    /\ ~breaks_constraint(existing_pokemon, pkmn_name)

\* ok at the end of an iteration of the loop of sample_randombattle_pokemon
\* that began with sample_count draws made and drew pkmn_name
draw_ok(existing_pokemon, pkmn_name, sample_count) ==
    /\ pkmn_name \notin existing_pokemon
    /\ ~(sample_count + 1 < 10 /\ breaks_constraint(existing_pokemon, pkmn_name))

\* the opponent's Pokemon that are revealed when the battle is sampled: a
\* team the server has generated under its constraints
RevealedTeams ==
    {team \in SUBSET DOMAIN RandomBattleSpecies :
        /\ team # {} /\ team # DOMAIN RandomBattleSpecies
        /\ ~_more_than_3_pokemon_weak_to_a_given_typing(team)
        /\ ~_more_than_2_pokemon_of_any_type(team)
        /\ ~_more_than_1_pokemon_with_4x_weakness(team)}

NoDraw == [name |-> None, ok |-> FALSE]

\* existing_pkmn is held as the set of its species: neither the names nor
\* the constraints depend on the order of the list
InitFill ==
    /\ battle = NewBattle("gen9", "RANDOM_BATTLE")
    /\ datasets = InitialDatasets
    /\ pc = "pick" /\ idx = 0 /\ lastMsg = <<>> /\ dispatched = <<>>
    /\ ret = TRUE /\ sent = "" /\ consecutive_errors = 0
    /\ session = NoSession
    /\ \E team \in RevealedTeams :
          search = [pc |-> "start", existing_pkmn |-> team, sample_count |-> 0,
                    draw |-> NoDraw]

\* populate_randombattle_unrevealed_pkmn up to its loop
populate_randombattle_unrevealed_pkmn ==
    /\ search.pc = "start"
    /\ search' = [search EXCEPT
                     !.pc = IF Cardinality(search.existing_pkmn) = 6
                            THEN "returned" ELSE "sampling"]
    /\ UNCHANGED BattleVars

\* one iteration of the loop of sample_randombattle_pokemon; sample_count
\* is counted up to 10, from where on the loop does not tell the counts
\* apart. With ok the function returns, the Pokemon joins the team, and a
\* team of six ends populate_randombattle_unrevealed_pkmn
sample_randombattle_pokemon(pkmn_name) ==
    LET ok == draw_ok(search.existing_pkmn, pkmn_name, search.sample_count)
        team == search.existing_pkmn \cup {pkmn_name}
    IN /\ search.pc = "sampling"
       /\ search' =
             IF ok
             THEN [search EXCEPT !.existing_pkmn = team,
                                 !.sample_count = 0,
                                 !.draw = [name |-> pkmn_name, ok |-> TRUE],
                                 !.pc = IF Cardinality(team) = 6
                                        THEN "returned" ELSE "sampling"]
             ELSE [search EXCEPT !.sample_count = Min(@ + 1, 10),
                                 !.draw = [name |-> pkmn_name, ok |-> FALSE]]
       /\ UNCHANGED BattleVars

\* a draw that ends the loop, and one after which it goes on
AcceptedDraw ==
    \E pkmn_name \in DOMAIN RandomBattleSpecies :
        /\ draw_ok(search.existing_pkmn, pkmn_name, search.sample_count)
        /\ sample_randombattle_pokemon(pkmn_name)

RejectedDraw ==
    \E pkmn_name \in DOMAIN RandomBattleSpecies :
        /\ ~draw_ok(search.existing_pkmn, pkmn_name, search.sample_count)
        /\ sample_randombattle_pokemon(pkmn_name)

NextFill == populate_randombattle_unrevealed_pkmn \/ AcceptedDraw \/ RejectedDraw

SpecFill == InitFill /\ [][NextFill]_vars

\* the function keeps running, and random.choice, which draws every species
\* of the dataset with the same probability, does not for ever draw species
\* that are rejected while one that is accepted is in the dataset
SpecFillLive == SpecFill /\ WF_vars(NextFill) /\ WF_vars(AcceptedDraw)

\* the step is a draw that was rejected
DrawRejected == search.pc = "sampling" /\ search'.pc = "sampling" /\ ~search'.draw.ok

\* C34 as stated: a draw made after ten rejections is accepted.
C34_DrawAfterTenRejectionsAccepted ==
    [][search.pc = "sampling" /\ search.sample_count = 10 /\ search' # search
          => search'.draw.ok]_vars

\* C34: a draw is rejected only for a species that is already on the team
\* or, among the first nine draws for a slot, for a broken team-generation
\* constraint; and the team is filled in the end.
C34_FillTerminatesOnceDrawIsFresh ==
    /\ [][DrawRejected =>
             \/ search'.draw.name \in search.existing_pkmn
             \/ /\ search.sample_count < 9
                /\ breaks_constraint(search.existing_pkmn, search'.draw.name)]_vars
    /\ <>(search.pc = "returned")

\* the team was filled although every species that was left broke a
\* constraint: the last draws were made with the constraints given up
C34_Witness ==
    /\ search.pc = "returned"
    /\ Cardinality(search.existing_pkmn) = 6
    /\ breaks_constraint(search.existing_pkmn \ {search.draw.name}, search.draw.name)
-----------------------------------------------------------------------------
(* run.py: run_foul_play runs one battle after the other until the count   *)
(* of the limited mode is reached, a shutdown is requested or too many     *)
(* errors have followed each other                                         *)

\* most battles the bot is asked to run in limited mode, most battles it
\* starts in the model
MaxRunCount == 2
MaxBattles == 3

\* the winner pokemon_battle_with_monitoring returns: the bot, the other
\* player, or None after a tie
Winners == {UserName, OpponentName, None}

\* BotState() and the locals of run_foul_play; announced is what
\* request_shutdown has logged, turns the turns played of the battle,
\* started and finished the battles that have begun and have ended with a
\* win or a tie
BotProcess(keep_alive, run_count) ==
    [loop |-> "top", shutdown_requested |-> FALSE, in_battle |-> FALSE,
     announced |-> None, battles_run |-> 0, winner |-> None,
     keep_alive |-> keep_alive, run_count |-> run_count,
     started |-> 0, finished |-> 0, turns |-> 0]

InitRun ==
    /\ battle = NewBattle("gen9", "STANDARD_BATTLE")
    /\ datasets = InitialDatasets
    /\ pc = "pick" /\ idx = 0 /\ lastMsg = <<>> /\ dispatched = <<>>
    /\ ret = TRUE /\ sent = "" /\ consecutive_errors = 0
    /\ search = NoSearch
    /\ \E keep_alive \in BOOLEAN : \E run_count \in 1..MaxRunCount :
          session = BotProcess(keep_alive, run_count)

\* what run_foul_play leaves alone
RunOthers == <<battle, datasets, pc, idx, lastMsg, dispatched, ret, sent, search>>

should_shutdown(s) == s.shutdown_requested /\ ~s.in_battle

\* the process gets SIGINT or SIGTERM: signal_handler, request_shutdown
request_shutdown ==
    /\ session.loop # "stopped"
    /\ ~session.shutdown_requested
    /\ session' = [session EXCEPT
                      !.shutdown_requested = TRUE,
                      !.announced = IF session.in_battle THEN "after the current battle"
                                    ELSE "after the current operation"]
    /\ UNCHANGED <<consecutive_errors, RunOthers>>

\* "Check for shutdown before starting new battle"
LoopTop ==
    /\ session.loop = "top"
    /\ session' = [session EXCEPT
                      !.loop = IF should_shutdown(session) THEN "stopped" ELSE "single"]
    /\ UNCHANGED <<consecutive_errors, RunOthers>>

\* run_single_battle_with_monitoring up to update_team
CheckBeforeTeam ==
    /\ session.loop = "single"
    /\ session' = IF should_shutdown(session)
                  THEN [session EXCEPT !.loop = "returned", !.winner = None]
                  ELSE [session EXCEPT !.loop = "team"]
    /\ UNCHANGED <<consecutive_errors, RunOthers>>

\* update_team has been awaited: "Check for shutdown request again"
CheckBeforeChallenge ==
    /\ session.loop = "team"
    /\ session' = IF should_shutdown(session)
                  THEN [session EXCEPT !.loop = "returned", !.winner = None]
                  ELSE [session EXCEPT !.loop = "challenge"]
    /\ UNCHANGED <<consecutive_errors, RunOthers>>

\* the challenge or the search for a match is sent, and
\* set_battle_state(True) marks the battle as started
Challenge ==
    /\ session.loop = "challenge"
    /\ session.started < MaxBattles
    /\ session' = [session EXCEPT !.loop = "battle", !.in_battle = TRUE,
                                  !.started = @ + 1, !.turns = 0]
    /\ UNCHANGED <<consecutive_errors, RunOthers>>

\* an iteration of the loop of pokemon_battle_with_monitoring on a message
\* that does not end the battle: a requested shutdown is logged, the bot
\* plays on
PlayTurn ==
    /\ session.loop = "battle"
    /\ session.turns < MaxTurns
    /\ session' = [session EXCEPT !.turns = @ + 1]
    /\ UNCHANGED <<consecutive_errors, RunOthers>>

\* the message of the win or the tie: the winner is returned through the
\* finally of run_single_battle_with_monitoring
BattleFinishes ==
    /\ session.loop = "battle"
    /\ \E winner \in Winners :
          session' = [session EXCEPT !.loop = "returned", !.in_battle = FALSE,
                                     !.winner = winner, !.finished = @ + 1]
    /\ UNCHANGED <<consecutive_errors, RunOthers>>

\* the battle flag is left as it is when the battle raises
BattleRaisesWithoutFinally ==
    /\ session.loop \in {"team", "challenge", "battle"}
    /\ \E kind \in {"raised", "raised_connection"} :
          session' = [session EXCEPT !.loop = kind]
    /\ UNCHANGED <<consecutive_errors, RunOthers>>

\* an await of run_single_battle_with_monitoring raises, a ConnectionError,
\* OSError or TimeoutError or another exception; the finally marks the
\* battle as finished
BattleRaises ==
    /\ session.loop \in {"team", "challenge", "battle"}
    /\ \E kind \in {"raised", "raised_connection"} :
          session' = [session EXCEPT
                         !.loop = kind,
                         !.in_battle = IF session.loop = "battle" THEN FALSE ELSE @]
    /\ UNCHANGED <<consecutive_errors, RunOthers>>

\* run_foul_play after run_single_battle_with_monitoring has returned
AfterBattle ==
    LET counted == IF session.winner # None THEN session.battles_run + 1
                   ELSE session.battles_run
    IN /\ session.loop = "returned"
       /\ IF session.winner = None /\ should_shutdown(session)
          THEN /\ session' = [session EXCEPT !.loop = "stopped"]
               /\ UNCHANGED consecutive_errors
          ELSE /\ consecutive_errors' = 0
               /\ session' =
                     [session EXCEPT
                         !.battles_run = counted,
                         !.loop = IF ~session.keep_alive /\ counted >= session.run_count
                                  THEN "stopped"
                                  ELSE IF should_shutdown(session) THEN "stopped"
                                  ELSE "delay"]
       /\ UNCHANGED RunOthers

\* the delay between two battles
Delay ==
    /\ session.loop = "delay"
    /\ session' = [session EXCEPT
                      !.loop = IF should_shutdown(session) THEN "stopped" ELSE "top"]
    /\ UNCHANGED <<consecutive_errors, RunOthers>>

\* "except (ConnectionError, OSError, asyncio.TimeoutError)"
ConnectionErrorCounted ==
    /\ session.loop = "raised_connection"
    /\ consecutive_errors' = consecutive_errors + 1
    /\ session' = [session EXCEPT
                      !.loop = IF consecutive_errors + 1 >= max_consecutive_errors
                               THEN "stopped" ELSE "recover"]
    /\ UNCHANGED RunOthers

\* handle_disconnection_recovery: it gives up, it reconnects, or it
\* reconnects and finds a battle going on, which resume_battle joins
Recovery ==
    /\ session.loop = "recover"
    /\ \/ session' = [session EXCEPT !.loop = "stopped"]
       \/ session' = [session EXCEPT !.loop = "top"]
       \/ session' = [session EXCEPT !.loop = "resume", !.in_battle = TRUE]
    /\ UNCHANGED <<consecutive_errors, RunOthers>>

\* resume_battle ends: the battle was over, was forfeited at its next
\* request, or an await raised
ResumeEnds ==
    /\ session.loop = "resume"
    /\ session' = [session EXCEPT !.loop = "top", !.in_battle = FALSE]
    /\ UNCHANGED <<consecutive_errors, RunOthers>>

\* "except Exception"
UnexpectedErrorCounted ==
    /\ session.loop = "raised"
    /\ consecutive_errors' = consecutive_errors + 1
    /\ session' = [session EXCEPT
                      !.loop = IF consecutive_errors + 1 >= max_consecutive_errors
                               THEN "stopped" ELSE "top"]
    /\ UNCHANGED RunOthers

NextRun ==
    \/ request_shutdown
    \/ LoopTop
    \/ CheckBeforeTeam
    \/ CheckBeforeChallenge
    \/ Challenge
    \/ PlayTurn
    \/ BattleFinishes
    \/ BattleRaises
    \/ AfterBattle
    \/ Delay
    \/ ConnectionErrorCounted
    \/ Recovery
    \/ ResumeEnds
    \/ UnexpectedErrorCounted

SpecRun == InitRun /\ [][NextRun]_vars

\* C35: while a battle is in progress should_shutdown is false and in_battle
\* is true, and in_battle is false everywhere else; a battle during which a
\* shutdown is requested goes on until it finishes or raises; and once a
\* shutdown was requested during a battle no battle is started any more.
C35_ShutdownWaitsForBattle ==
    /\ [](session.in_battle => ~should_shutdown(session))
    /\ [](session.in_battle <=> session.loop \in {"battle", "resume"})
    /\ [][session.loop = "battle" /\ session.shutdown_requested
             => session'.loop \in {"battle", "returned", "raised", "raised_connection"}]_vars
    /\ [][session.announced = "after the current battle"
             => session'.started = session.started]_vars

\* a shutdown was requested during a battle, the battle was played to its
\* end, and the bot has stopped
C35_Witness ==
    /\ session.loop = "stopped"
    /\ session.announced = "after the current battle"
    /\ session.turns = MaxTurns
    /\ session.finished = session.started

\* C36: in limited mode every battle that finishes counts, so no more than
\* run_count battles finish.
C36_LimitedModeRunsRunCountBattles ==
    /\ session.loop \in {"top", "delay", "stopped"} /\ consecutive_errors = 0
          => session.battles_run = session.finished
    /\ ~session.keep_alive => session.finished <= session.run_count
----------------------------------------------------------------------------
(* The rqid of the requests and the decisions the loop sends for them *)

\* SessionStatus.FINISHED, ERROR and FORFEITED
EndedStatuses == {"finished", "error", "forfeited"}

\* C37: the loop sends at most one decision for an rqid: it does not start
\* to wait for a decision at the rqid it has sent one for, and when the
\* server asks again at that rqid the session is in error and /forfeit is
\* the last message sent.
C37_OneDecisionPerRqid ==
    /\ [](\A i, j \in 1..Len(session.answers) :
              i # j => session.answers[i].rqid # session.answers[j].rqid)
    /\ [][/\ (session.loop = "receive" /\ session'.loop = "enter_wait")
                => \/ session'.requests # session.requests
                   \/ session.last_sent_rqid # session.requests
          /\ (/\ session.loop = "receive"
              /\ session'.loop = "returned"
              /\ session'.error_message = "Server did not process move")
                => /\ session.last_sent_rqid = session.requests
                   /\ session'.status = "error"
                   /\ session'.answers = session.answers
                   /\ session'.sent = Append(session.sent, Forfeit)]_vars

\* the server has asked again at the rqid of the one decision sent
C37_Witness ==
    /\ session.loop = "returned"
    /\ session.error_message = "Server did not process move"
    /\ session.status = "error"
    /\ session.requests = 1
    /\ session.answers = <<[rqid |-> 0, submitted |-> 0], [rqid |-> 1, submitted |-> 1]>>
    /\ session.sent = <<MoveDecision("tackle"), Forfeit>>

\* C38 as stated: every decision the loop has sent for a request was
\* submitted while that request was the pending one.
C38_DecisionSentForItsRequest ==
    \A i \in 1..Len(session.answers) :
        session.answers[i].submitted = session.answers[i].rqid

\* C39 as stated: once the status is FINISHED, ERROR or FORFEITED no step
\* changes it or sets awaiting_decision.
C39_EndedStatusIsTerminal ==
    [][session.status \in EndedStatuses
          => /\ session'.status = session.status
             /\ (session'.awaiting_decision => session.awaiting_decision)]_vars

----------------------------------------------------------------------------
(* The opponent's Pokemon cannot move, switches, and moves *)

\* the turns of a battle: the opponent switches, cannot move, or moves
CantTurns ==
    {<<SwitchLine(OpponentName, "Heatran", 100), RequestMove>>,
     <<Line("cant", OpponentName, "flinch", 0, "", ""), RequestMove>>,
     <<MoveLine(UserName, "Tackle"), Line("cant", OpponentName, "par", 0, "", ""),
       RequestMove>>,
     <<MoveLine(OpponentName, "Tackle"), RequestMove>>,
     <<MoveLine(OpponentName, "Quick Attack"), MoveLine(UserName, "Tackle"),
       RequestMove>>}

NextCant == Step(CantTurns)

SpecCant == Init /\ [][NextCant]_vars

\* C40 as stated: the step that handles a move of the opponent's active
\* Pokemon takes can_have_choice_item back, for a move that does not by
\* itself make a choice item unlikely, only when the Pokemon has used a
\* different move since it switched in.
C40_TwoDifferentMovesSinceSwitchIn ==
    [][(/\ HandlingLine
        /\ CurrentLine.tag = "move"
        /\ is_opponent(battle, CurrentLine)
        /\ ~unlikely_to_have_choice_item(normalize_name(CurrentLine.x))
        /\ battle.opponent.active.can_have_choice_item
        /\ battle'.opponent.active.name = battle.opponent.active.name
        /\ ~battle'.opponent.active.can_have_choice_item)
          => \E m \in battle.opponent.active.moves_used_since_switch_in :
                m # normalize_name(CurrentLine.x)]_vars

====
